---------------------------- MODULE Spec2Model ----------------------------
(***************************************************************************)
(* A TLA+ model of the provisioning core of RCraft (a Minecraft launcher   *)
(* written in Rust): the library rule evaluator, the classpath builder,    *)
(* the Java runtime resolver / installer and the launch part of the UI     *)
(* message loop.                                                           *)
(*                                                                         *)
(* Conventions                                                             *)
(*   - Rust's Option<T> is a sequence of length <= 1: None is << >> and    *)
(*     Some(x) is << x >>.                                                  *)
(*   - A Rust String that the code takes apart (split, parse, replace) is  *)
(*     a sequence of one-character strings; a String that is only compared *)
(*     or copied is a TLA+ string.                                         *)
(*   - Every operation has its own program counter; a specification picks  *)
(*     the operation under study in its initial predicate and leaves the   *)
(*     others idle.                                                        *)
(***************************************************************************)
EXTENDS Integers, Sequences, FiniteSets, TLC

VARIABLES
    disk,          \* versions/<id>/<id>.json, for the ids that have one
    op,            \* the operation under study in this behaviour
    \* ---- is_library_allowed (utils.rs) ----
    ila_lib,       \* the Library argument
    ila_os,        \* the os_name argument
    ila_ret,       \* Option<bool>: the returned verdict
    \* ---- MinecraftLauncher::build_classpath (launcher.rs) ----
    cp_pc,         \* "idle", "while", "for", "finish", "ok", "err"
    cp_start,      \* start_version
    cp_current,    \* current_version_id : Option<String>
    cp_version,    \* `version` of the running iteration of the while loop
    cp_json,       \* Option<VersionJson>: version_json of the running iteration
    cp_i,          \* position of the `for lib in &version_json.libraries` loop
    cp_paths,      \* classpath_paths : Vec<PathBuf>
    cp_seen,       \* seen_artifacts : HashSet<String>
    cp_jar,        \* vanilla_jar_path : Option<PathBuf>
    cp_ret,        \* Option<String>: the returned cp_string
    cp_err,        \* the error returned when cp_pc = "err"
    cp_visited,    \* history: the version ids loaded so far, in order
    cp_src,        \* history: for each pushed library its <<visit, index>>
    \* ---- MinecraftLauncher::get_required_java_version (launcher.rs) ----
    jv_pc,         \* "idle", "call", "ok", "err"
    jv_version,    \* the `version` argument of the running (innermost) call
    jv_ret,        \* Option<u32>: the returned major version
    jv_visited,    \* history: the `version` argument of every call so far
    \* ---- the machine: runtimes directory and installed Javas ----
    env,           \* JAVA_HOME, `which`, the Java executables and their versions
    major,         \* the Java major version the operation is about
    rt,            \* runtimes/java-<major>: Option<set of files>
    tmp,           \* runtimes/temp_<major>: Option<Option<set of files>>
    \* ---- find_java (java_manager.rs and launcher.rs) ----
    fj_pc,         \* "idle", "manager", "launcher", "ok", "err"
    fj_ret,        \* Option<PathBuf>: the returned path
    \* ---- JavaManager::download_and_install_java (java_manager.rs) ----
    ins_pc,        \* "idle", "call", the running step, "ok", "err", "interrupted"
    ins_archive,   \* Option<archive>: the downloaded bytes
    ins_renamed,   \* history: this call has renamed the folder into place
    ins_ret,       \* Option<PathBuf>: the returned java_bin
    \* ---- AppModel (ui/model.rs) and its input channel ----
    ui_state,                \* AppState: "Ready", "Launching", "Downloading", ...
    pending_launch_profile,  \* Option<String>
    java_dialog_request,     \* Option<u32>
    dialog_visible,          \* java_dialog is on screen
    ui_queue,                \* the AppMsg inputs not yet handled
    launch_tasks,            \* spawned launch tasks still in prepare_and_launch
    prepare_tasks,           \* spawned prepare_java tasks that have not looked yet
    download_tasks,          \* prepare_java tasks inside download_and_install_java
    games,                   \* child processes running
    ui_clicks,               \* history: Launch clicks so far
    ui_granted,              \* history: confirmations handled and not yet used
    \* ---- MinecraftLauncher::launch_minecraft (launcher.rs) ----
    jars,          \* the version ids whose versions/<id>/<id>.jar exists
    lm,            \* the call: its arguments, locals, position and result
    \* ---- the asset step of MinecraftLauncher::download_version (main.rs) ----
    assets_files,  \* the files under assets_dir
    ap,            \* the step: the index served, its position and result
    \* ---- MinecraftLauncher::install_fabric (launcher.rs) ----
    versions_entries,  \* the entries of versions_dir: name, is_dir, modified
    fab,           \* the call: its argument, position, subprocess and result
    \* ---- native extraction (library_manager.rs, launcher.rs, main.rs) ----
    natives_dir,   \* versions/<id>/natives: Option<[files, dirs]>
    zips,          \* versions/<id>/<library>.zip: the cached files' contents
    nat,           \* the run: its implementation, descriptor, position, result
    \* ---- AppModel: profiles, mod icons; ModrinthClient; LibraryManager ----
    pf,            \* the profile map, profiles.json and the save threads
    ic,            \* the mod-icon queue, its flag and its workers
    mr,            \* one call of search_mods or get_versions
    dl             \* one call of check_and_download_libraries

ilaVars == <<ila_lib, ila_os, ila_ret>>

cpVars == <<cp_pc, cp_start, cp_current, cp_version, cp_json, cp_i, cp_paths,
            cp_seen, cp_jar, cp_ret, cp_err, cp_visited, cp_src>>

jvVars == <<jv_pc, jv_version, jv_ret, jv_visited>>

fjVars == <<fj_pc, fj_ret>>

insVars == <<ins_pc, ins_archive, ins_renamed, ins_ret>>

javaVars == <<env, major, rt, tmp, fjVars, insVars>>

uiVars == <<ui_state, pending_launch_profile, java_dialog_request, dialog_visible,
            ui_queue, launch_tasks, prepare_tasks, download_tasks, games,
            ui_clicks, ui_granted, pf, ic, mr, dl>>

lmVars == <<jars, lm>>

apVars == <<assets_files, ap>>

fabVars == <<versions_entries, fab>>

natVars == <<natives_dir, zips, nat>>

gameVars == <<lmVars, apVars, fabVars, natVars>>

resolveVars == <<ilaVars, cpVars, jvVars>>

nonCpVars == <<ilaVars, jvVars, javaVars, uiVars, gameVars>>

nonJvVars == <<ilaVars, cpVars, javaVars, uiVars, gameVars>>

nonIlaVars == <<cpVars, jvVars, javaVars, uiVars, gameVars>>

vars == <<disk, op, ilaVars, cpVars, jvVars, javaVars, uiVars, gameVars>>

---------------------------------------------------------------------------
(* Option<T> *)

None == << >>

Some(x) == << x >>

IsSome(o) == Len(o) > 0

IsNone(o) == Len(o) = 0

Unwrap(o) == o[1]

---------------------------------------------------------------------------
(* Strings as character sequences *)

RECURSIVE SplitFrom(_, _, _, _)
\* str::split(sep): cur is the piece being read, acc the pieces finished;
\* the scan advances one separator at a time.
SplitFrom(s, sep, cur, acc) ==
    LET hits == {i \in 1..Len(s) : s[i] = sep}
    IN IF hits = {} THEN Append(acc, cur \o s)
       ELSE LET i == CHOOSE h \in hits : \A g \in hits : h <= g
            IN SplitFrom(SubSeq(s, i + 1, Len(s)), sep, << >>,
                         Append(acc, cur \o SubSeq(s, 1, i - 1)))

Split(s, sep) == SplitFrom(s, sep, << >>, << >>)

RECURSIVE ReplaceChar(_, _, _)
\* str::replace(from, to) for one-character patterns
ReplaceChar(s, from, to) ==
    IF s = << >> THEN << >>
    ELSE <<(IF Head(s) = from THEN to ELSE Head(s))>> \o ReplaceChar(Tail(s), from, to)

DigitChars == <<"0", "1", "2", "3", "4", "5", "6", "7", "8", "9">>

IsDigit(c) == \E d \in 1..10 : DigitChars[d] = c

DigitVal(c) == (CHOOSE d \in 1..10 : DigitChars[d] = c) - 1

RECURSIVE ParseDigits(_, _)
ParseDigits(s, acc) ==
    IF s = << >> THEN acc ELSE ParseDigits(Tail(s), acc * 10 + DigitVal(Head(s)))

\* str::parse::<u32>(): Ok(n) for a non-empty run of decimal digits, Err
\* otherwise (None here).  Values stay far below 2^32 in this model.
ParseU32(s) ==
    IF s # << >> /\ \A i \in 1..Len(s) : IsDigit(s[i])
    THEN Some(ParseDigits(s, 0))
    ELSE None

---------------------------------------------------------------------------
(* Rule evaluator: utils.rs is_library_allowed *)

\* a rule evaluator that lets the first matching rule decide
FoldRules_FirstMatch(rules, os_name, allowed) ==
    LET hit == {i \in 1..Len(rules) :
                   \/ IsNone(rules[i].os)
                   \/ IsNone(Unwrap(rules[i].os).name)
                   \/ Unwrap(Unwrap(rules[i].os).name) = os_name}
    IN IF hit = {} THEN allowed
       ELSE rules[CHOOSE i \in hit : \A j \in hit : i <= j].action = "allow"

RECURSIVE FoldRules(_, _, _)
\* the `for rule in rules` loop with its running `allowed`
FoldRules(rules, os_name, allowed) ==
    IF rules = << >> THEN allowed
    ELSE LET rule == Head(rules)
             matches == IF IsSome(rule.os)
                        THEN IF IsSome(Unwrap(rule.os).name)
                             THEN Unwrap(Unwrap(rule.os).name) = os_name
                             ELSE TRUE
                        ELSE TRUE
         IN FoldRules(Tail(rules), os_name,
                      IF matches THEN rule.action = "allow" ELSE allowed)

is_library_allowed(lib, os_name) ==
    IF IsNone(lib.rules) THEN TRUE
    ELSE FoldRules(Unwrap(lib.rules), os_name, FALSE)

---------------------------------------------------------------------------
(* Inputs of the rule evaluator *)

MaxRules == 2

RuleActions == {"allow", "deny", "disallow"}

\* Rule.os: absent, present without a name, present with a name
RuleOs == {None, Some([name |-> None]),
           Some([name |-> Some("linux")]), Some([name |-> Some("osx")])}

Rules == [action : RuleActions, os : RuleOs]

OsNames == {"linux", "osx", "windows"}

BoundedSeq(S, n) == UNION {[1..k -> S] : k \in 0..n}

RuleLists == BoundedSeq(Rules, MaxRules)

\* a library that only carries rules
RuleLib(rules) ==
    [name |-> <<"g", ":", "a", ":", "1">>, downloads |-> None, rules |-> rules]

---------------------------------------------------------------------------
(* Paths.  A PathBuf is the character sequence it displays as. *)

libraries_dir == <<"l", "i", "b", "s">>

versions_dir == <<"v", "e", "r", "s">>

\* Path::join for a relative component
PathJoin(dir, rel) == dir \o <<"/">> \o rel

RECURSIVE JoinWith(_, _)
\* [String]::join(sep)
JoinWith(strs, sep) ==
    IF strs = << >> THEN << >>
    ELSE IF Len(strs) = 1 THEN strs[1]
    ELSE strs[1] \o <<sep>> \o JoinWith(Tail(strs), sep)

\* format!("{}.json", version) under versions_dir/<version>
VersionFile(version) ==
    IF version \in DOMAIN disk THEN disk[version]
    ELSE [exists |-> FALSE, json |-> None]

JarExt == <<".", "j", "a", "r">>

---------------------------------------------------------------------------
(* Library & classpath builder: launcher.rs build_classpath *)

\* library files present under libraries_dir (p.exists()): the one that is
\* there from the start and those check_and_download_libraries has written
LibFileExists(p) ==
    p \in {PathJoin(libraries_dir,
                    <<"h", "/", "b", "/", "1", "/", "b", "-", "1">> \o JarExt)}
             \cup dl.stored

\* lines 183-187: the explicit artifact path, if any
ExplicitLibPath(lib) ==
    IF IsSome(lib.downloads) /\ IsSome(Unwrap(lib.downloads).artifact)
    THEN Some(PathJoin(libraries_dir, Unwrap(Unwrap(lib.downloads).artifact).path))
    ELSE None

\* lines 189-202: the derived Maven path, kept only if the file exists
DerivedLibPath(lib) ==
    LET parts == Split(lib.name, ":") IN
    IF Len(parts) >= 2
    THEN LET group == ReplaceChar(parts[1], ".", "/")
             artifact_id == parts[2]
             version == IF Len(parts) >= 3 THEN parts[3] ELSE << >>
             path == group \o <<"/">> \o artifact_id \o <<"/">> \o version \o <<"/">>
                     \o artifact_id \o <<"-">> \o version \o JarExt
             p == PathJoin(libraries_dir, path)
         IN IF LibFileExists(p) THEN Some(p) ELSE None
    ELSE None

LibPathBuf(lib) ==
    IF IsSome(ExplicitLibPath(lib)) THEN ExplicitLibPath(lib) ELSE DerivedLibPath(lib)

\* lines 204-208: "group:artifact"
MavenKey(lib) ==
    LET parts == Split(lib.name, ":") IN
    IF Len(parts) >= 2 THEN Some(parts[1] \o <<":">> \o parts[2]) ELSE None

\* a builder that skips the rule check
CpAllowed_Unchecked(lib) == TRUE

\* line 175
CpAllowed(lib) == is_library_allowed(lib, "linux")

\* a builder that forgets to look the key up in seen_artifacts
CpPushes_NoDedup(lib, seen) ==
    IsSome(LibPathBuf(lib)) /\ IsSome(MavenKey(lib))

\* lines 210-215: is the library pushed, given the keys seen so far
CpPushes(lib, seen) ==
    /\ IsSome(LibPathBuf(lib))
    /\ IsSome(MavenKey(lib))
    /\ Unwrap(MavenKey(lib)) \notin seen

MaxVisits == 4

\* a builder for which a missing descriptor is fatal anywhere on the chain
CpWhile_StrictAncestors ==
    /\ cp_pc = "while"
    /\ IF IsNone(cp_current)
       THEN /\ cp_pc' = "finish"
            /\ UNCHANGED <<cp_version, cp_json, cp_i, cp_visited, cp_err>>
       ELSE LET version == Unwrap(cp_current) IN
            IF ~VersionFile(version).exists
            THEN /\ cp_pc' = "err" /\ cp_err' = "Version JSON not found"
                 /\ UNCHANGED <<cp_version, cp_json, cp_i, cp_visited>>
            ELSE IF IsNone(VersionFile(version).json)
            THEN /\ cp_pc' = "err"
                 /\ cp_err' = "serde_json error"
                 /\ UNCHANGED <<cp_version, cp_json, cp_i, cp_visited>>
            ELSE /\ Len(cp_visited) < MaxVisits
                 /\ cp_version' = version
                 /\ cp_json' = VersionFile(version).json
                 /\ cp_i' = 1
                 /\ cp_visited' = Append(cp_visited, version)
                 /\ cp_pc' = "for"
                 /\ UNCHANGED cp_err
    /\ UNCHANGED <<cp_start, cp_current, cp_paths, cp_seen, cp_jar, cp_ret, cp_src>>
    /\ UNCHANGED <<disk, op>> /\ UNCHANGED nonCpVars

\* lines 159-172: the head of one iteration of `while let Some(version)`
CpWhile ==
    /\ cp_pc = "while"
    /\ IF IsNone(cp_current)
       THEN /\ cp_pc' = "finish"
            /\ UNCHANGED <<cp_version, cp_json, cp_i, cp_visited, cp_err>>
       ELSE LET version == Unwrap(cp_current) IN
            IF ~VersionFile(version).exists
            THEN /\ IF version = cp_start
                    THEN cp_pc' = "err" /\ cp_err' = "Version JSON not found"
                    ELSE cp_pc' = "finish" /\ UNCHANGED cp_err
                 /\ UNCHANGED <<cp_version, cp_json, cp_i, cp_visited>>
            ELSE IF IsNone(VersionFile(version).json)
            THEN \* serde_json::from_str(..)? fails
                 /\ cp_pc' = "err"
                 /\ cp_err' = "serde_json error"
                 /\ UNCHANGED <<cp_version, cp_json, cp_i, cp_visited>>
            ELSE /\ Len(cp_visited) < MaxVisits
                 /\ cp_version' = version
                 /\ cp_json' = VersionFile(version).json
                 /\ cp_i' = 1
                 /\ cp_visited' = Append(cp_visited, version)
                 /\ cp_pc' = "for"
                 /\ UNCHANGED cp_err
    /\ UNCHANGED <<cp_start, cp_current, cp_paths, cp_seen, cp_jar, cp_ret, cp_src>>
    /\ UNCHANGED <<disk, op>> /\ UNCHANGED nonCpVars

\* lines 174-216: one iteration of `for lib in &version_json.libraries`
CpForLib ==
    /\ cp_pc = "for"
    /\ cp_i <= Len(Unwrap(cp_json).libraries)
    /\ LET lib == Unwrap(cp_json).libraries[cp_i] IN
       IF CpAllowed(lib) /\ CpPushes(lib, cp_seen)
       THEN /\ cp_seen' = cp_seen \cup {Unwrap(MavenKey(lib))}
            /\ cp_paths' = Append(cp_paths, Unwrap(LibPathBuf(lib)))
            /\ cp_src' = Append(cp_src, <<Len(cp_visited), cp_i>>)
       ELSE UNCHANGED <<cp_seen, cp_paths, cp_src>>
    /\ cp_i' = cp_i + 1
    /\ UNCHANGED <<cp_pc, cp_start, cp_current, cp_version, cp_json, cp_jar,
                   cp_ret, cp_err, cp_visited>>
    /\ UNCHANGED <<disk, op>> /\ UNCHANGED nonCpVars

\* lines 218-225: follow inheritsFrom, or note the base version's JAR
CpInherit ==
    /\ cp_pc = "for"
    /\ cp_i > Len(Unwrap(cp_json).libraries)
    /\ IF IsSome(Unwrap(cp_json).inherits_from)
       THEN /\ cp_current' = Some(Unwrap(Unwrap(cp_json).inherits_from))
            /\ UNCHANGED cp_jar
       ELSE /\ cp_jar' = Some(PathJoin(PathJoin(versions_dir, cp_version),
                                       cp_version \o JarExt))
            /\ cp_current' = None
    /\ cp_pc' = "while"
    /\ UNCHANGED <<cp_start, cp_version, cp_json, cp_i, cp_paths, cp_seen,
                   cp_ret, cp_err, cp_visited, cp_src>>
    /\ UNCHANGED <<disk, op>> /\ UNCHANGED nonCpVars

\* lines 228-238: append the JAR and join with ":"
CpFinish ==
    /\ cp_pc = "finish"
    /\ cp_paths' = IF IsSome(cp_jar) THEN Append(cp_paths, Unwrap(cp_jar)) ELSE cp_paths
    /\ cp_ret' = Some(JoinWith(cp_paths', ":"))
    /\ cp_pc' = "ok"
    /\ UNCHANGED <<cp_start, cp_current, cp_version, cp_json, cp_i, cp_seen,
                   cp_jar, cp_err, cp_visited, cp_src>>
    /\ UNCHANGED <<disk, op>> /\ UNCHANGED nonCpVars

---------------------------------------------------------------------------
(* LibraryManager::check_and_download_libraries (library_manager.rs 20-77) *)
(* dl.stored holds the paths written, dl.wrote the indices of the entries  *)
(* whose file was written under the derived Maven path.                    *)

DlIdle ==
    [pc |-> "idle", version |-> << >>, i |-> 0, stored |-> {}, wrote |-> {},
     requests |-> << >>, err |-> ""]

DlCalled(version) == [DlIdle EXCEPT !.pc = "check", !.version = version]

\* lines 47-55: group/artifact/version/artifact-version[-classifier].jar
DlRelPath(lib) ==
    LET parts == Split(lib.name, ":") IN
    IF Len(parts) >= 3
    THEN LET group == ReplaceChar(parts[1], ".", "/")
             artifact_id == parts[2]
             version == parts[3]
             suffix == IF Len(parts) > 3 THEN <<"-">> \o parts[4] ELSE << >>
         IN Some(group \o <<"/">> \o artifact_id \o <<"/">> \o version \o <<"/">>
                 \o artifact_id \o <<"-">> \o version \o suffix \o JarExt)
    ELSE None

\* lines 34-58: where the entry is stored, None when no URL is known
DlTarget(lib) ==
    LET explicit == IsSome(lib.downloads) /\ IsSome(Unwrap(lib.downloads).artifact)
        url == IF explicit THEN Unwrap(Unwrap(lib.downloads).artifact).url ELSE << >>
    IN IF url # << >>
       THEN Some([path |-> PathJoin(libraries_dir,
                                    Unwrap(Unwrap(lib.downloads).artifact).path),
                  derived |-> FALSE])
       ELSE IF IsSome(DlRelPath(lib))
       THEN Some([path |-> PathJoin(libraries_dir, Unwrap(DlRelPath(lib))),
                  derived |-> TRUE])
       ELSE None

DlFrame ==
    UNCHANGED <<disk, op, ilaVars, jvVars, javaVars, gameVars, ui_state,
                pending_launch_profile, java_dialog_request, dialog_visible,
                ui_queue, launch_tasks, prepare_tasks, download_tasks, games,
                ui_clicks, ui_granted, pf, ic, mr>>

\* lines 21-27
DlCheck ==
    /\ dl.pc = "check"
    /\ dl' = IF ~VersionFile(dl.version).exists THEN [dl EXCEPT !.pc = "ok"]
             ELSE IF IsNone(VersionFile(dl.version).json)
             THEN [dl EXCEPT !.pc = "err", !.err = "serde_json error"]
             ELSE [dl EXCEPT !.pc = "for", !.i = 1]
    /\ UNCHANGED cpVars
    /\ DlFrame

DlLibraries == Unwrap(VersionFile(dl.version).json).libraries

\* lines 29-75: one iteration of `for lib in v_json.libraries`
DlForLib ==
    /\ dl.pc = "for"
    /\ dl.i <= Len(DlLibraries)
    /\ LET lib == DlLibraries[dl.i]
           target == DlTarget(lib)
           next == [dl EXCEPT !.i = @ + 1]
       IN IF ~is_library_allowed(lib, "linux") \/ IsNone(target)
          THEN dl' = next
          ELSE IF LibFileExists(Unwrap(target).path)
          THEN dl' = next
          ELSE \E outcome \in {"written", "no body", "io error"} :
               dl' = IF outcome = "io error"
                     THEN [dl EXCEPT !.pc = "err", !.err = "io error"]
                     ELSE IF outcome = "no body"
                     THEN [next EXCEPT !.requests = Append(@, dl.i)]
                     ELSE [next EXCEPT
                             !.requests = Append(@, dl.i),
                             !.stored = @ \cup {Unwrap(target).path},
                             !.wrote = IF Unwrap(target).derived
                                       THEN @ \cup {dl.i} ELSE @]
    /\ UNCHANGED cpVars
    /\ DlFrame

\* line 76
DlReturn ==
    /\ dl.pc = "for"
    /\ dl.i > Len(DlLibraries)
    /\ dl' = [dl EXCEPT !.pc = "ok"]
    /\ UNCHANGED cpVars
    /\ DlFrame

\* the launch that follows: build_classpath(version) is called, launcher.rs
\* 152-157
DlThenClasspath ==
    /\ dl.pc = "ok" /\ cp_pc = "idle"
    /\ cp_pc' = "while"
    /\ cp_start' = dl.version
    /\ cp_current' = Some(dl.version)
    /\ UNCHANGED <<cp_version, cp_json, cp_i, cp_paths, cp_seen, cp_jar,
                   cp_ret, cp_err, cp_visited, cp_src>>
    /\ UNCHANGED dl
    /\ DlFrame

---------------------------------------------------------------------------
(* Java requirement: launcher.rs get_required_java_version *)

\* lines 71-92 and, again, lines 109-131: the version-string heuristic
JavaHeuristic(version) ==
    LET parts == Split(version, ".") IN
    IF Len(parts) >= 2 /\ IsSome(ParseU32(parts[2]))
    THEN LET minor == Unwrap(ParseU32(parts[2])) IN
         IF minor >= 20
         THEN IF /\ Len(parts) >= 3
                 /\ IsSome(ParseU32(parts[3]))
                 /\ \/ (minor = 20 /\ Unwrap(ParseU32(parts[3])) >= 5)
                    \/ minor > 20
              THEN 21
              ELSE 17
         ELSE IF minor >= 18 THEN 17
         ELSE IF minor = 17 THEN 16
         ELSE 8
    ELSE 8

\* a resolver that follows inheritsFrom before it looks at its own javaVersion
JvCall_ParentFirst ==
    /\ jv_pc = "call"
    /\ IF ~VersionFile(jv_version).exists
       THEN /\ jv_ret' = Some(JavaHeuristic(jv_version))
            /\ jv_pc' = "ok"
            /\ UNCHANGED <<jv_version, jv_visited>>
       ELSE IF IsNone(VersionFile(jv_version).json)
       THEN /\ jv_pc' = "err"
            /\ UNCHANGED <<jv_version, jv_ret, jv_visited>>
       ELSE LET version_json == Unwrap(VersionFile(jv_version).json) IN
            IF IsSome(version_json.inherits_from)
            THEN /\ Len(jv_visited) < MaxVisits
                 /\ jv_version' = Unwrap(version_json.inherits_from)
                 /\ jv_visited' = Append(jv_visited, jv_version')
                 /\ UNCHANGED <<jv_pc, jv_ret>>
            ELSE IF IsSome(version_json.java_version)
            THEN /\ jv_ret' = Some(Unwrap(version_json.java_version).major_version)
                 /\ jv_pc' = "ok"
                 /\ UNCHANGED <<jv_version, jv_visited>>
            ELSE /\ jv_ret' = Some(JavaHeuristic(jv_version))
                 /\ jv_pc' = "ok"
                 /\ UNCHANGED <<jv_version, jv_visited>>
    /\ UNCHANGED <<disk, op>> /\ UNCHANGED nonJvVars

\* lines 63-132: one call; the recursive call of line 105 is the next step
JvCall ==
    /\ jv_pc = "call"
    /\ IF ~VersionFile(jv_version).exists
       THEN /\ jv_ret' = Some(JavaHeuristic(jv_version))
            /\ jv_pc' = "ok"
            /\ UNCHANGED <<jv_version, jv_visited>>
       ELSE IF IsNone(VersionFile(jv_version).json)
       THEN \* serde_json::from_str(..)? fails
            /\ jv_pc' = "err"
            /\ UNCHANGED <<jv_version, jv_ret, jv_visited>>
       ELSE LET version_json == Unwrap(VersionFile(jv_version).json) IN
            IF IsSome(version_json.java_version)
            THEN /\ jv_ret' = Some(Unwrap(version_json.java_version).major_version)
                 /\ jv_pc' = "ok"
                 /\ UNCHANGED <<jv_version, jv_visited>>
            ELSE IF IsSome(version_json.inherits_from)
            THEN /\ Len(jv_visited) < MaxVisits
                 /\ jv_version' = Unwrap(version_json.inherits_from)
                 /\ jv_visited' = Append(jv_visited, jv_version')
                 /\ UNCHANGED <<jv_pc, jv_ret>>
            ELSE /\ jv_ret' = Some(JavaHeuristic(jv_version))
                 /\ jv_pc' = "ok"
                 /\ UNCHANGED <<jv_version, jv_visited>>
    /\ UNCHANGED <<disk, op>> /\ UNCHANGED nonJvVars

---------------------------------------------------------------------------
(* The runtimes directory and the Java installations of the machine *)

\* A path or a command name is the format string with the number put into it
RuntimeJava(ver) == <<"runtimes/java-{}/bin/java", ver>>

P_java == <<"java", 0>>

P_javaN(ver) == <<"java{}", ver>>

P_java_N(ver) == <<"java-{}", ver>>

P_usr == <<"/usr/bin/java", 0>>

P_usr_local == <<"/usr/local/bin/java", 0>>

P_opt == <<"/opt/java/bin/java", 0>>

P_amd64(ver) == <<"/usr/lib/jvm/java-{}-openjdk-amd64/bin/java", ver>>

P_openjdk(ver) == <<"/usr/lib/jvm/java-{}-openjdk/bin/java", ver>>

P_amd64_1_8 == <<"/usr/lib/jvm/java-1.8.0-openjdk-amd64/bin/java", 0>>

P_openjdk_1_8 == <<"/usr/lib/jvm/java-1.8.0-openjdk/bin/java", 0>>

P_zulu == <<"/usr/lib/jvm/zulu/bin/java", 0>>

P_home == <<"$JAVA_HOME/bin/java", 0>>

\* path_str.contains("/")
ContainsSlash(path_str) == path_str[1] \notin {"java", "java{}", "java-{}"}

\* the files of a JDK archive's top-level folder
Jdk == {"bin/java", "lib/modules", "release"}

\* target_dir.exists() && target_dir.join("bin").join("java").exists()
Installed == IsSome(rt) /\ "bin/java" \in Unwrap(rt)

\* Path::exists (follows symbolic links)
Exists(path) ==
    \/ path = RuntimeJava(major) /\ Installed
    \/ path \in DOMAIN env.version
    \/ path \in DOMAIN env.link /\ env.link[path] \in DOMAIN env.version

\* std::fs::canonicalize of an existing path
Canonicalize(path) == IF path \in DOMAIN env.link THEN env.link[path] ELSE path

\* `which <command>`: Option<path>
Which(command) ==
    IF command \in DOMAIN env.which THEN Some(env.which[command]) ELSE None

\* get_java_version: Option<u32>, None when the output cannot be parsed
get_java_version(path) ==
    IF path = RuntimeJava(major) THEN env.rt_version ELSE env.version[path]

\* the entries of /usr/lib/jvm, each joined with bin/java
JvmEntries ==
    {P_amd64(8), P_amd64(17), P_openjdk(8), P_openjdk(17),
     P_amd64_1_8, P_openjdk_1_8, P_zulu}

---------------------------------------------------------------------------
(* JavaManager::find_java (java_manager.rs) *)

\* Some(path) for Ok(path), None for Err
JavaManager_find_java(ver) ==
    IF ver = major /\ Installed THEN Some(RuntimeJava(ver)) ELSE None

JavaManagerFindJava ==
    /\ fj_pc = "manager"
    /\ fj_ret' = JavaManager_find_java(major)
    /\ fj_pc' = IF IsSome(fj_ret') THEN "ok" ELSE "err"
    /\ UNCHANGED <<env, rt, major, tmp, insVars>>
    /\ UNCHANGED <<disk, op>> /\ UNCHANGED <<resolveVars, uiVars, gameVars>>

---------------------------------------------------------------------------
(* MinecraftLauncher::find_java (launcher.rs), required_version = Some(ver) *)

InsertFront(seq, x) == <<x>> \o seq

Candidates(ver) ==
    LET c0 == <<P_java, P_usr, P_usr_local, P_opt>>
        c1 == InsertFront(InsertFront(c0, P_java_N(ver)), P_javaN(ver))
        c2 == c1 \o <<P_amd64(ver), P_openjdk(ver)>>
        c3 == IF ver = 8 THEN c2 \o <<P_amd64_1_8, P_openjdk_1_8>> ELSE c2
        c4 == IF IsSome(env.java_home)
              THEN InsertFront(c3, Unwrap(env.java_home)) ELSE c3
    IN  IF Exists(RuntimeJava(ver)) THEN InsertFront(c4, RuntimeJava(ver)) ELSE c4

\* the loop over the candidates: the returned path, if any, and seen_paths
RECURSIVE CheckCandidates(_, _, _, _)
CheckCandidates(candidates, i, seen_paths, req) ==
    IF i > Len(candidates)
    THEN [ret |-> None, seen_paths |-> seen_paths]
    ELSE LET path_str == candidates[i]
             path == IF ContainsSlash(path_str) THEN Some(path_str)
                     ELSE Which(path_str)
         IN  IF IsNone(path) \/ ~Exists(Unwrap(path))
             THEN CheckCandidates(candidates, i + 1, seen_paths, req)
             ELSE LET path_abs == Canonicalize(Unwrap(path)) IN
                  IF path_abs \in seen_paths
                  THEN CheckCandidates(candidates, i + 1, seen_paths, req)
                  ELSE IF get_java_version(path_abs) = Some(req)
                  THEN [ret |-> Some(path_abs),
                        seen_paths |-> seen_paths \cup {path_abs}]
                  ELSE CheckCandidates(candidates, i + 1,
                                       seen_paths \cup {path_abs}, req)

\* the scan of /usr/lib/jvm: read_dir yields the entries in any order, so
\* any unseen entry of the required version can be the one returned
ScanHits(seen_paths, req) ==
    {Canonicalize(path) : path \in {e \in JvmEntries : Exists(e)}}
        \cap {p \in DOMAIN env.version :
                 p \notin seen_paths /\ env.version[p] = Some(req)}

\* the paths the call can return; the empty set when it returns Err
Launcher_find_java(ver) ==
    LET r == CheckCandidates(Candidates(ver), 1, {}, ver) IN
    IF IsSome(r.ret) THEN {Unwrap(r.ret)} ELSE ScanHits(r.seen_paths, ver)

LauncherFindJava ==
    /\ fj_pc = "launcher"
    /\ IF Launcher_find_java(major) = {}
       THEN fj_ret' = None /\ fj_pc' = "err"
       ELSE \E path \in Launcher_find_java(major) :
               fj_ret' = Some(path) /\ fj_pc' = "ok"
    /\ UNCHANGED <<env, rt, major, tmp, insVars>>
    /\ UNCHANGED <<disk, op>> /\ UNCHANGED <<resolveVars, uiVars, gameVars>>

---------------------------------------------------------------------------
(* JavaManager::download_and_install_java (java_manager.rs)               *)
(* rt is runtimes/java-<major>: None, or Some(the set of its files).       *)
(* tmp is runtimes/temp_<major>: None, Some(None) for an empty directory,  *)
(* or Some(Some(files)) when it holds the archive's top-level folder.      *)

JdkArchive == [top |-> TRUE, files |-> Jdk]

NoBinArchive == [top |-> TRUE, files |-> Jdk \ {"bin/java"}]

EmptyArchive == [top |-> FALSE, files |-> {}]

Archives == {JdkArchive, NoBinArchive, EmptyArchive}

InsRunning ==
    {"fetch", "download", "temp", "extract", "locate", "remove_target",
     "rename", "remove_temp", "verify", "chmod"}

InsFrame == UNCHANGED <<disk, op, env, major, fjVars, resolveVars, uiVars, gameVars>>

\* the call and step 1 (lines 43-49): an installed runtime is returned as is
InsCall ==
    /\ ins_pc = "call"
    /\ IF Installed
       THEN ins_ret' = Some(RuntimeJava(major)) /\ ins_pc' = "ok"
       ELSE ins_ret' = None /\ ins_pc' = "fetch"
    /\ UNCHANGED <<rt, tmp, ins_archive, ins_renamed>>
    /\ InsFrame

\* step 2 (lines 62-72): the release query; fails on a network or JSON
\* error, on an empty list of releases or of binaries
InsFetch ==
    /\ ins_pc = "fetch"
    /\ \E ok \in BOOLEAN : ins_pc' = IF ok THEN "download" ELSE "err"
    /\ UNCHANGED <<rt, tmp, ins_archive, ins_renamed, ins_ret>>
    /\ InsFrame

\* step 3 (lines 77-94): the archive is downloaded into memory
InsDownload ==
    /\ ins_pc = "download"
    /\ \E r \in {None} \cup {Some(a) : a \in Archives} :
          /\ ins_archive' = r
          /\ ins_pc' = IF IsSome(r) THEN "temp" ELSE "err"
    /\ UNCHANGED <<rt, tmp, ins_renamed, ins_ret>>
    /\ InsFrame

\* what a remove_dir_all that fails part-way can leave of the directory
Leftovers(dir) ==
    IF IsNone(dir) THEN {Some(None)}
    ELSE {Some(None)} \cup {Some(Some(g)) : g \in SUBSET Unwrap(dir)}

\* lines 107-111: a left-over temp directory is removed and a new one created
InsTemp ==
    /\ ins_pc = "temp"
    /\ \E ok \in BOOLEAN :
          IF ok
          THEN tmp' = Some(None) /\ ins_pc' = "extract"
          ELSE /\ tmp' \in (IF IsSome(tmp) THEN Leftovers(Unwrap(tmp)) ELSE {})
                          \cup {None}
               /\ ins_pc' = "err"
    /\ UNCHANGED <<rt, ins_archive, ins_renamed, ins_ret>>
    /\ InsFrame

\* the files of the folder in the temp directory
TmpFiles == IF IsSome(tmp) /\ IsSome(Unwrap(tmp)) THEN Unwrap(Unwrap(tmp)) ELSE {}

\* a step that unpacks into the runtime's own directory
InsExtract_InPlace ==
    /\ ins_pc = "extract"
    /\ LET archive == Unwrap(ins_archive)
           have == IF IsSome(rt) THEN Unwrap(rt) ELSE {} IN
       IF archive.files \subseteq have
       THEN /\ ins_pc' = "locate"
            /\ UNCHANGED rt
       ELSE \E ok \in BOOLEAN :
               IF ok
               THEN /\ \E f \in archive.files \ have : rt' = Some(have \cup {f})
                    /\ UNCHANGED ins_pc
               ELSE /\ ins_pc' = "err"
                    /\ UNCHANGED rt
    /\ UNCHANGED <<tmp, ins_archive, ins_renamed, ins_ret>>
    /\ InsFrame

\* lines 113-121: the archive is unpacked into the temp directory, one file
\* at a time; an I/O error or a broken archive stops it anywhere
InsExtract ==
    /\ ins_pc = "extract"
    /\ LET archive == Unwrap(ins_archive) IN
       IF ~archive.top \/ (IsSome(Unwrap(tmp)) /\ archive.files \subseteq TmpFiles)
       THEN /\ ins_pc' = "locate"
            /\ UNCHANGED tmp
       ELSE \E ok \in BOOLEAN :
               IF ok
               THEN /\ \E f \in archive.files \ TmpFiles :
                          tmp' = Some(Some(TmpFiles \cup {f}))
                    /\ UNCHANGED ins_pc
               ELSE /\ ins_pc' = "err"
                    /\ UNCHANGED tmp
    /\ UNCHANGED <<rt, ins_archive, ins_renamed, ins_ret>>
    /\ InsFrame

\* lines 124-129: the first entry of the temp directory is extracted_root
InsLocate ==
    /\ ins_pc = "locate"
    /\ ins_pc' = IF IsSome(tmp) /\ IsSome(Unwrap(tmp)) THEN "remove_target" ELSE "err"
    /\ UNCHANGED <<rt, tmp, ins_archive, ins_renamed, ins_ret>>
    /\ InsFrame

\* lines 131-133: an existing target directory is removed
InsRemoveTarget ==
    /\ ins_pc = "remove_target"
    /\ IF IsNone(rt)
       THEN ins_pc' = "rename" /\ UNCHANGED rt
       ELSE \E ok \in BOOLEAN :
               IF ok
               THEN rt' = None /\ ins_pc' = "rename"
               ELSE /\ rt' \in {Some(g) : g \in SUBSET Unwrap(rt)}
                    /\ ins_pc' = "err"
    /\ UNCHANGED <<tmp, ins_archive, ins_renamed, ins_ret>>
    /\ InsFrame

\* line 138: fs::rename(&extracted_root, &target_dir)
InsRename ==
    /\ ins_pc = "rename"
    /\ \E ok \in BOOLEAN :
          IF ok /\ IsNone(rt)
          THEN /\ rt' = Some(TmpFiles)
               /\ tmp' = Some(None)
               /\ ins_renamed' = TRUE
               /\ ins_pc' = "remove_temp"
          ELSE /\ ins_pc' = "err"
               /\ UNCHANGED <<rt, tmp, ins_renamed>>
    /\ UNCHANGED <<ins_archive, ins_ret>>
    /\ InsFrame

\* line 139: fs::remove_dir_all(&temp_dir)
InsRemoveTemp ==
    /\ ins_pc = "remove_temp"
    /\ \E ok \in BOOLEAN :
          IF ok THEN tmp' = None /\ ins_pc' = "verify"
          ELSE UNCHANGED tmp /\ ins_pc' = "err"
    /\ UNCHANGED <<rt, ins_archive, ins_renamed, ins_ret>>
    /\ InsFrame

\* lines 143-147: the executable has to be there
InsVerify ==
    /\ ins_pc = "verify"
    /\ ins_pc' = IF Installed THEN "chmod" ELSE "err"
    /\ UNCHANGED <<rt, tmp, ins_archive, ins_renamed, ins_ret>>
    /\ InsFrame

\* lines 150-158: the executable bit is set and the path returned
InsChmod ==
    /\ ins_pc = "chmod"
    /\ \E ok \in BOOLEAN :
          IF ok THEN ins_ret' = Some(RuntimeJava(major)) /\ ins_pc' = "ok"
          ELSE UNCHANGED ins_ret /\ ins_pc' = "err"
    /\ UNCHANGED <<rt, tmp, ins_archive, ins_renamed>>
    /\ InsFrame

\* the process is killed (or the task dropped) in the middle of the call
InsInterrupt ==
    /\ ins_pc \in InsRunning
    /\ ins_pc' = "interrupted"
    /\ UNCHANGED <<rt, tmp, ins_archive, ins_renamed, ins_ret>>
    /\ InsFrame

\* download_and_install_java is called again for the same major version
InsAgain ==
    /\ ins_pc \in {"ok", "err", "interrupted"}
    /\ ins_pc' = "call"
    /\ ins_archive' = None /\ ins_renamed' = FALSE /\ ins_ret' = None
    /\ UNCHANGED <<rt, tmp>>
    /\ InsFrame

---------------------------------------------------------------------------
(* The launch part of AppModel::update and update_view (ui/mod.rs)        *)
(* ui_queue is the component's input channel, handled first in first out;  *)
(* one profile, ProfileName, exists and requires Java `major`.             *)

ProfileName == "p"

Msg(type, name, ver) == [type |-> type, name |-> name, ver |-> ver]

MaxClicks == 2

MaxQueue == 3

MaxSaves == 1

\* seconds a game session may last
Durations == {1}

\* the name SaveProfile derives from the fields of the create page
NewProfileName == "q"

\* results of one search that carry an icon
MaxIcons == 2

MaxSearches == 2

ProjectIds == {"a", "b"}

\* update_view, lines 1057-1061: the dialog is presented whenever a request
\* is stored; only the user's response hides it (lines 355-362)
Presented(request, visible) == IF IsSome(request) THEN TRUE ELSE visible

Handling(type) == ui_queue # << >> /\ Head(ui_queue).type = type

UiFrame ==
    UNCHANGED <<disk, op, env, major, tmp, fjVars, insVars, resolveVars, gameVars,
                pf, ic, mr, dl>>

\* the history of a handler that is not an answer and starts nothing
UiQuiet == UNCHANGED <<ui_clicks, ui_granted>>

\* The component handles its channel on the GTK main loop, the loop that
\* dispatches the user's input: what an earlier click has sent (and what its
\* handler has sent to the component itself) is handled before the next click
UserInputWaiting ==
    \E i \in 1..Len(ui_queue) :
        ui_queue[i].type \in {"LaunchProfile", "JavaDownloadConfirmed",
                              "JavaDownloadCancelled", "InstallJavaAndLaunch",
                              "BackToMainMenu", "NavigateToSection",
                              "SaveProfile", "DeleteProfile"}

\* home.rs 132-135: the Launch button of the profile, on the home page
UserLaunch ==
    /\ op = "ui"
    /\ ~UserInputWaiting
    /\ ui_state = "Ready" /\ ~dialog_visible
    /\ ProfileName \in DOMAIN pf.profiles
    /\ ui_clicks < MaxClicks
    /\ ui_clicks' = ui_clicks + 1
    /\ ui_queue' = Append(ui_queue, Msg("LaunchProfile", ProfileName, 0))
    /\ UNCHANGED <<ui_state, pending_launch_profile, java_dialog_request,
                   dialog_visible, launch_tasks, prepare_tasks, download_tasks,
                   games, ui_granted, rt>>
    /\ UiFrame

\* lines 355-362: the user answers the dialog
UserRespond ==
    /\ op = "ui"
    /\ ~UserInputWaiting
    /\ dialog_visible
    /\ dialog_visible' = FALSE
    /\ \E response \in {"install", "cancel"} :
          ui_queue' = Append(ui_queue,
                             IF response = "install"
                             THEN Msg("JavaDownloadConfirmed", "", 0)
                             ELSE Msg("JavaDownloadCancelled", "", 0))
    /\ UNCHANGED <<ui_state, pending_launch_profile, java_dialog_request,
                   launch_tasks, prepare_tasks, download_tasks, games,
                   rt>>
    /\ UiQuiet
    /\ UiFrame

\* the Back button of the error page
UserBack ==
    /\ op = "ui"
    /\ ~UserInputWaiting
    /\ ui_state = "Error" /\ ~dialog_visible
    /\ ui_queue' = Append(ui_queue, Msg("BackToMainMenu", "", 0))
    /\ UNCHANGED <<ui_state, pending_launch_profile, java_dialog_request,
                   dialog_visible, launch_tasks, prepare_tasks, download_tasks,
                   games, rt>>
    /\ UiQuiet
    /\ UiFrame

\* lines 544-641, the handler itself: the launch task is spawned
OnLaunchProfile ==
    /\ Handling("LaunchProfile")
    /\ IF Head(ui_queue).name \in DOMAIN pf.profiles
       THEN /\ ui_state' = "Launching"
            /\ pending_launch_profile' = Some(Head(ui_queue).name)
            /\ launch_tasks' = launch_tasks + 1
       ELSE UNCHANGED <<ui_state, pending_launch_profile, launch_tasks>>
    /\ ui_queue' = Tail(ui_queue)
    /\ dialog_visible' = Presented(java_dialog_request, dialog_visible)
    /\ UNCHANGED <<java_dialog_request, prepare_tasks, download_tasks, games, rt>>
    /\ UiQuiet
    /\ UiFrame

\* the outcome of prepare_and_launch for a profile that needs Java `ver`:
\* "missing" is the error "Java Runtime <ver> is missing"
PrepareAndLaunchOutcomes(ver) ==
    IF JavaManager_find_java(ver) = None THEN {"missing"} ELSE {"ok", "failed"}

\* a launch task that answers a missing runtime by starting the install itself
LaunchTask_AutoInstall ==
    /\ launch_tasks > 0
    /\ launch_tasks' = launch_tasks - 1
    /\ \E outcome \in PrepareAndLaunchOutcomes(major) :
          /\ ui_queue' = Append(ui_queue,
                CASE outcome = "missing" -> Msg("InstallJavaAndLaunch", "", 0)
                  [] outcome = "ok"      -> Msg("GameStarted", "", 0)
                  [] OTHER               -> Msg("Error", "", 0))
          /\ games' = IF outcome = "ok" THEN games + 1 ELSE games
    /\ UNCHANGED <<ui_state, pending_launch_profile, java_dialog_request,
                   dialog_visible, prepare_tasks, download_tasks, rt>>
    /\ UiQuiet
    /\ UiFrame

\* lines 570-638, the spawned task: prepare_and_launch, then the child process
LaunchTask ==
    /\ launch_tasks > 0
    /\ launch_tasks' = launch_tasks - 1
    /\ \E outcome \in PrepareAndLaunchOutcomes(major) :
          /\ ui_queue' = Append(ui_queue,
                CASE outcome = "missing" -> Msg("ShowJavaDialog", "", major)
                  [] outcome = "ok"      -> Msg("GameStarted", "", 0)
                  [] OTHER               -> Msg("Error", "", 0))
          /\ games' = IF outcome = "ok" THEN games + 1 ELSE games
    /\ UNCHANGED <<ui_state, pending_launch_profile, java_dialog_request,
                   dialog_visible, prepare_tasks, download_tasks, rt>>
    /\ UiQuiet
    /\ UiFrame

\* lines 611-615: the game exits after `duration` seconds
GameExit ==
    /\ games > 0
    /\ games' = games - 1
    /\ \E duration \in Durations :
          ui_queue' = ui_queue \o <<Msg("SessionEnded", ProfileName, duration),
                                    Msg("LaunchCompleted", "", 0)>>
    /\ UNCHANGED <<ui_state, pending_launch_profile, java_dialog_request,
                   dialog_visible, launch_tasks, prepare_tasks, download_tasks,
                   rt>>
    /\ UiQuiet
    /\ UiFrame

\* lines 571-574 and 677-679: a running task reports progress
TaskProgress ==
    /\ launch_tasks + prepare_tasks + download_tasks > 0
    /\ Len(ui_queue) < MaxQueue
    /\ ui_queue' = Append(ui_queue, Msg("DownloadProgress", "", 0))
    /\ UNCHANGED <<ui_state, pending_launch_profile, java_dialog_request,
                   dialog_visible, launch_tasks, prepare_tasks, download_tasks,
                   games, rt>>
    /\ UiQuiet
    /\ UiFrame

\* lines 642-651, 688-690, 761-767, 469-471: the handlers that only move state
OnStateMsg ==
    /\ ui_queue # << >>
    /\ Head(ui_queue).type \in {"GameStarted", "DownloadProgress", "LaunchCompleted",
                                "Error", "BackToMainMenu", "NavigateToSection"}
    /\ LET type == Head(ui_queue).type IN
       /\ ui_state' =
             CASE type = "GameStarted" ->
                     IF ui_state = "Launching" THEN "GameRunning" ELSE ui_state
               [] type = "DownloadProgress" -> ui_state
               [] type = "LaunchCompleted" -> "Ready"
               [] type = "Error" -> "Error"
               [] type = "BackToMainMenu" -> ui_state
               [] OTHER -> "Ready"
       /\ ui_queue' = IF type = "BackToMainMenu"
                      THEN Append(Tail(ui_queue), Msg("NavigateToSection", "", 0))
                      ELSE Tail(ui_queue)
    /\ dialog_visible' = Presented(java_dialog_request, dialog_visible)
    /\ UNCHANGED <<pending_launch_profile, java_dialog_request, launch_tasks,
                   prepare_tasks, download_tasks, games, rt>>
    /\ UiQuiet
    /\ UiFrame

\* lines 652-654
OnShowJavaDialog ==
    /\ Handling("ShowJavaDialog")
    /\ java_dialog_request' = Some(Head(ui_queue).ver)
    /\ ui_queue' = Tail(ui_queue)
    /\ dialog_visible' = Presented(java_dialog_request', dialog_visible)
    /\ UNCHANGED <<ui_state, pending_launch_profile, launch_tasks, prepare_tasks,
                   download_tasks, games, rt>>
    /\ UiQuiet
    /\ UiFrame

\* lines 655-658
OnJavaDownloadConfirmed ==
    /\ Handling("JavaDownloadConfirmed")
    /\ java_dialog_request' = None
    /\ ui_queue' = Append(Tail(ui_queue), Msg("InstallJavaAndLaunch", "", 0))
    /\ dialog_visible' = Presented(java_dialog_request', dialog_visible)
    /\ ui_granted' = ui_granted + 1
    /\ UNCHANGED <<ui_state, pending_launch_profile, launch_tasks, prepare_tasks,
                   download_tasks, games, rt, ui_clicks>>
    /\ UiFrame

\* lines 659-663
OnJavaDownloadCancelled ==
    /\ Handling("JavaDownloadCancelled")
    /\ java_dialog_request' = None
    /\ ui_state' = "Ready"
    /\ pending_launch_profile' = None
    /\ ui_queue' = Tail(ui_queue)
    /\ dialog_visible' = Presented(java_dialog_request', dialog_visible)
    /\ UNCHANGED <<launch_tasks, prepare_tasks, download_tasks, games, rt>>
    /\ UiQuiet
    /\ UiFrame

\* lines 664-687, the handler itself: the prepare_java task is spawned
OnInstallJavaAndLaunch ==
    /\ Handling("InstallJavaAndLaunch")
    /\ IF IsSome(pending_launch_profile)
          /\ Unwrap(pending_launch_profile) \in DOMAIN pf.profiles
       THEN /\ ui_state' = "Downloading"
            /\ prepare_tasks' = prepare_tasks + 1
       ELSE UNCHANGED <<ui_state, prepare_tasks>>
    /\ ui_queue' = Tail(ui_queue)
    /\ dialog_visible' = Presented(java_dialog_request, dialog_visible)
    /\ ui_granted' = IF ui_granted > 0 THEN ui_granted - 1 ELSE 0
    /\ UNCHANGED <<pending_launch_profile, java_dialog_request, launch_tasks,
                   download_tasks, games, rt, ui_clicks>>
    /\ UiFrame

\* launcher.rs 134-143 in the task of lines 675-683: a Java that find_java
\* accepts ends prepare_java at once, otherwise the download begins
PrepareJavaFind ==
    /\ prepare_tasks > 0
    /\ prepare_tasks' = prepare_tasks - 1
    /\ IF Launcher_find_java(major) # {}
       THEN /\ ui_queue' = Append(ui_queue, Msg("LaunchProfile", ProfileName, 0))
            /\ UNCHANGED download_tasks
       ELSE /\ download_tasks' = download_tasks + 1
            /\ UNCHANGED ui_queue
    /\ UNCHANGED <<ui_state, pending_launch_profile, java_dialog_request,
                   dialog_visible, launch_tasks, games, rt>>
    /\ UiQuiet
    /\ UiFrame

\* launcher.rs 145-148 in the task of lines 675-683: download_and_install_java
\* returns; a failure leaves the runtime as it was
PrepareJavaDownload ==
    /\ download_tasks > 0
    /\ download_tasks' = download_tasks - 1
    /\ \E ok \in BOOLEAN :
          IF ok
          THEN /\ rt' = Some(Jdk)
               /\ ui_queue' = Append(ui_queue, Msg("LaunchProfile", ProfileName, 0))
          ELSE /\ UNCHANGED rt
               /\ ui_queue' = Append(ui_queue, Msg("Error", "", 0))
    /\ UNCHANGED <<ui_state, pending_launch_profile, java_dialog_request,
                   dialog_visible, launch_tasks, prepare_tasks, games>>
    /\ UiQuiet
    /\ UiFrame

---------------------------------------------------------------------------
(* Profiles and their persistence (ui/mod.rs)                              *)
(* pf.profiles is AppModel.profiles as name -> playtime_seconds, pf.json   *)
(* the map profiles.json holds, pf.threads the save threads still running: *)
(* each carries the snapshot it cloned and the number of its save.         *)

PfIdle ==
    [profiles |-> (ProfileName :> 0), json |-> (ProfileName :> 0), threads |-> {},
     saves |-> 0, failed |-> FALSE]

\* lines 1201-1216, the caller's part of save_profiles: the map is cloned and
\* a thread is spawned for it
save_profiles(profiles, p) ==
    [p EXCEPT !.profiles = profiles,
              !.saves = p.saves + 1,
              !.threads = p.threads \cup {[n |-> p.saves + 1, snapshot |-> profiles]}]

\* the map without the key name
Without(profiles, name) ==
    [k \in DOMAIN profiles \ {name} |-> profiles[k]]

\* HashMap::insert
Insert(profiles, name, value) ==
    [k \in DOMAIN profiles \cup {name} |-> IF k = name THEN value ELSE profiles[k]]

PfFrame ==
    UNCHANGED <<disk, op, env, major, tmp, fjVars, insVars, resolveVars, gameVars,
                ic, mr, dl, rt, pending_launch_profile, java_dialog_request,
                launch_tasks, prepare_tasks, download_tasks, games, ui_clicks,
                ui_granted>>

\* create.rs 106-109: the Save Profile button of the create page
UserSaveProfile ==
    /\ op = "ui"
    /\ ~UserInputWaiting
    /\ ui_state = "Ready" /\ ~dialog_visible
    /\ pf.saves < MaxSaves
    /\ ui_queue' = Append(ui_queue, Msg("SaveProfile", "", 0))
    /\ UNCHANGED <<ui_state, dialog_visible, pf>>
    /\ PfFrame

\* home.rs 147-150 and ui/mod.rs 800-817: the delete button of a profile and
\* the "Delete" response of the dialog it opens
UserDeleteProfile ==
    /\ op = "ui"
    /\ ~UserInputWaiting
    /\ ui_state = "Ready" /\ ~dialog_visible
    /\ pf.saves < MaxSaves
    /\ \E name \in DOMAIN pf.profiles :
          ui_queue' = Append(ui_queue, Msg("DeleteProfile", name, 0))
    /\ UNCHANGED <<ui_state, dialog_visible, pf>>
    /\ PfFrame

\* lines 716-754: the profile of the create page is inserted under its name
\* and the map saved; the page's own checks pass for the input modelled
OnSaveProfile ==
    /\ Handling("SaveProfile")
    /\ pf' = save_profiles(Insert(pf.profiles, NewProfileName, 0), pf)
    /\ ui_queue' = Append(Tail(ui_queue), Msg("NavigateToSection", "", 0))
    /\ dialog_visible' = Presented(java_dialog_request, dialog_visible)
    /\ UNCHANGED ui_state
    /\ PfFrame

\* lines 755-760
OnDeleteProfile ==
    /\ Handling("DeleteProfile")
    /\ pf' = save_profiles(Without(pf.profiles, Head(ui_queue).name), pf)
    /\ ui_queue' = Append(Tail(ui_queue), Msg("NavigateToSection", "", 0))
    /\ dialog_visible' = Presented(java_dialog_request, dialog_visible)
    /\ UNCHANGED ui_state
    /\ PfFrame

\* lines 819-825: the playtime of the profile grows and the map is saved,
\* when the profile still exists
OnSessionEnded ==
    /\ Handling("SessionEnded")
    /\ LET name == Head(ui_queue).name IN
       IF name \in DOMAIN pf.profiles
       THEN pf' = save_profiles(
                    Insert(pf.profiles, name, pf.profiles[name] + Head(ui_queue).ver),
                    pf)
       ELSE UNCHANGED pf
    /\ ui_queue' = Tail(ui_queue)
    /\ dialog_visible' = Presented(java_dialog_request, dialog_visible)
    /\ UNCHANGED ui_state
    /\ PfFrame

\* lines 1205-1214, the spawned thread: the snapshot is written to
\* profiles.json; a failed write leaves the file and sends Error.  The
\* threads are scheduled in any order
SaveThread ==
    /\ \E t \in pf.threads, ok \in BOOLEAN :
          IF ok
          THEN /\ pf' = [pf EXCEPT !.threads = pf.threads \ {t}, !.json = t.snapshot]
               /\ UNCHANGED ui_queue
          ELSE /\ pf' = [pf EXCEPT !.threads = pf.threads \ {t}, !.failed = TRUE]
               /\ ui_queue' = Append(ui_queue, Msg("Error", "", 0))
    /\ UNCHANGED <<ui_state, dialog_visible>>
    /\ PfFrame

---------------------------------------------------------------------------
(* The mod-icon queue (ui/mod.rs 931-984, ui.rs 1585-1700)                 *)
(* ic.queue is icon_download_queue (project ids), ic.flag is               *)
(* is_downloading_icon, ic.workers the worker threads alive, ic.cache the  *)
(* project ids with a cached png; ic.enqueued and ic.attempted record the  *)
(* ids pushed and popped so far.                                           *)

IcIdle ==
    [queue |-> << >>, flag |-> FALSE, workers |-> << >>, cache |-> {},
     enqueued |-> << >>, attempted |-> << >>, searches |-> 0]

IcFrame ==
    UNCHANGED <<disk, op, javaVars, resolveVars, gameVars, pf, mr, dl, ui_state,
                pending_launch_profile, java_dialog_request, dialog_visible,
                launch_tasks, prepare_tasks, download_tasks, games, ui_clicks,
                ui_granted>>

RECURSIVE IconMsgs(_)
\* one DownloadModIcon per search result that has an icon_url
IconMsgs(results) ==
    IF results = << >> THEN << >>
    ELSE <<Msg("DownloadModIcon", Head(results), 0)>> \o IconMsgs(Tail(results))

\* ui/mod.rs 856-871: ModsSearched(Ok(results)) asks for the icon of every
\* result
OnModsSearched ==
    /\ op = "icons"
    /\ ic.searches < MaxSearches
    /\ \E results \in BoundedSeq(ProjectIds, MaxIcons) :
          /\ results # << >>
          /\ ui_queue' = ui_queue \o IconMsgs(results)
    /\ ic' = [ic EXCEPT !.searches = ic.searches + 1]
    /\ IcFrame

\* lines 931-934
OnDownloadModIcon ==
    /\ Handling("DownloadModIcon")
    /\ ic' = [ic EXCEPT !.queue = Append(ic.queue, Head(ui_queue).name),
                        !.enqueued = Append(ic.enqueued, Head(ui_queue).name)]
    /\ ui_queue' = IF ~ic.flag
                   THEN Append(Tail(ui_queue), Msg("ProcessIconQueue", "", 0))
                   ELSE Tail(ui_queue)
    /\ IcFrame

\* a handler that starts a worker whatever the flag says
OnProcessIconQueue_NoGuard ==
    /\ Handling("ProcessIconQueue")
    /\ IF ic.queue # << >>
       THEN ic' = [ic EXCEPT !.queue = Tail(ic.queue), !.flag = TRUE,
                             !.workers = Append(ic.workers, Head(ic.queue)),
                             !.attempted = Append(ic.attempted, Head(ic.queue))]
       ELSE UNCHANGED ic
    /\ ui_queue' = Tail(ui_queue)
    /\ IcFrame

\* lines 935-980, the handler itself: nothing while a download runs,
\* otherwise the front entry is popped, the flag set and a worker spawned
OnProcessIconQueue ==
    /\ Handling("ProcessIconQueue")
    /\ IF ic.flag THEN UNCHANGED ic
       ELSE IF ic.queue # << >>
       THEN ic' = [ic EXCEPT !.queue = Tail(ic.queue), !.flag = TRUE,
                             !.workers = Append(ic.workers, Head(ic.queue)),
                             !.attempted = Append(ic.attempted, Head(ic.queue))]
       ELSE UNCHANGED ic
    /\ ui_queue' = Tail(ui_queue)
    /\ IcFrame

\* the ways a worker that finds no cached icon can end
IconOutcomes ==
    {"saved png", "png save failed", "saved svg", "svg write failed",
     "unknown format", "download failed"}

\* the path a worker reports: the cached or saved file, "" after a failure
IconPath(project_id, outcome) ==
    IF outcome \in {"cache hit", "saved png", "saved svg"} THEN project_id ELSE ""

Remove(seq, k) == SubSeq(seq, 1, k - 1) \o SubSeq(seq, k + 1, Len(seq))

\* a worker that says nothing when the download fails
IconWorker_SilentFailure ==
    /\ \E k \in 1..Len(ic.workers) :
       \E outcome \in IF ic.workers[k] \in ic.cache THEN {"cache hit"}
                       ELSE IconOutcomes :
          LET project_id == ic.workers[k] IN
          /\ ic' = [ic EXCEPT
                      !.workers = Remove(ic.workers, k),
                      !.cache = IF outcome = "saved png"
                                THEN ic.cache \cup {project_id} ELSE ic.cache]
          /\ ui_queue' = IF outcome = "download failed" THEN ui_queue
                         ELSE Append(ui_queue,
                                     Msg("ModIconDownloaded", project_id,
                                         IF IconPath(project_id, outcome) = "" THEN 0 ELSE 1))
    /\ IcFrame

\* lines 941-978, the worker thread: a cached icon is reported at once,
\* otherwise the bytes are fetched, decoded and saved; every way out sends
\* ModIconDownloaded, with the path or with ""
IconWorker ==
    /\ \E k \in 1..Len(ic.workers) :
       \E outcome \in IF ic.workers[k] \in ic.cache THEN {"cache hit"}
                       ELSE IconOutcomes :
          LET project_id == ic.workers[k] IN
          /\ ic' = [ic EXCEPT
                      !.workers = Remove(ic.workers, k),
                      !.cache = IF outcome = "saved png"
                                THEN ic.cache \cup {project_id} ELSE ic.cache]
          /\ ui_queue' = Append(ui_queue,
                                Msg("ModIconDownloaded", project_id,
                                    IF IconPath(project_id, outcome) = "" THEN 0 ELSE 1))
    /\ IcFrame

\* lines 981-983: the flag is cleared and the queue looked at again
OnModIconDownloaded ==
    /\ Handling("ModIconDownloaded")
    /\ ic' = [ic EXCEPT !.flag = FALSE]
    /\ ui_queue' = Append(Tail(ui_queue), Msg("ProcessIconQueue", "", 0))
    /\ IcFrame

---------------------------------------------------------------------------
(* ModrinthClient::search_mods and get_versions (modrinth_client.rs)       *)
(* mr.requests records what request.send() gave on each attempt, mr.slept  *)
(* the seconds slept after each failed attempt.                            *)

retries == 3

MrIdle ==
    [pc |-> "idle", fn |-> "", attempt |-> 0, delay |-> 1, last_error |-> None,
     requests |-> << >>, slept |-> << >>, ret |-> None]

\* lines 32-34 and 95-97
MrCalled(fn) == [MrIdle EXCEPT !.pc = "loop", !.fn = fn]

Statuses == {200, 204, 304, 400, 404, 429, 500, 502, 503, 504}

\* what request.send().await gives: Err(e), status 0 here, or a response
\* with a status and a body that can or cannot be read and decoded
Responses ==
    {[status |-> 0, body |-> FALSE]}
        \cup [status : Statuses, body : BOOLEAN]

is_success(status) == 200 <= status /\ status <= 299

is_server_error(status) == 500 <= status /\ status <= 599

\* every server error goes round the loop again
MrRetried_Any5xx(resp) == resp.status = 0 \/ is_server_error(resp.status)

\* the arms of the match that fall through to the sleep: Err(e), and a
\* server error other than 503
MrRetried(resp) ==
    \/ resp.status = 0
    \/ ~is_success(resp.status) /\ is_server_error(resp.status) /\ resp.status # 503

MrErr(e) == Some([ok |-> FALSE, val |-> e])

MrOk(fn) == Some([ok |-> TRUE, val |-> IF fn = "search_mods" THEN "hits" ELSE "versions"])

MrFrame ==
    UNCHANGED <<disk, op, javaVars, resolveVars, gameVars, pf, ic, dl, ui_state,
                ui_queue, pending_launch_profile, java_dialog_request,
                dialog_visible, launch_tasks, prepare_tasks, download_tasks,
                games, ui_clicks, ui_granted>>

\* one turn of `for _ in 0..=retries` (lines 51-89 and 99-141)
MrAttempt ==
    /\ mr.pc = "loop" /\ mr.attempt <= retries
    /\ \E resp \in Responses :
          LET sent == [mr EXCEPT !.requests = Append(mr.requests, resp)] IN
          IF MrRetried(resp)
          THEN mr' = [sent EXCEPT !.last_error = Some(resp.status),
                                  !.slept = Append(mr.slept, mr.delay),
                                  !.delay = mr.delay * 2,
                                  !.attempt = mr.attempt + 1]
          ELSE IF is_success(resp.status)
          THEN mr' = [sent EXCEPT !.pc = "done",
                                  !.ret = IF resp.body THEN MrOk(mr.fn)
                                          ELSE MrErr("decode")]
          ELSE IF resp.status = 503
          THEN mr' = [sent EXCEPT !.pc = "done", !.ret = MrErr("503")]
          ELSE mr' = [sent EXCEPT !.pc = "done",
                                  !.ret = IF resp.body THEN MrErr("status")
                                          ELSE MrErr("body")]
    /\ MrFrame

\* lines 91 and 143
MrExhausted ==
    /\ mr.pc = "loop" /\ mr.attempt > retries
    /\ mr' = [mr EXCEPT !.pc = "done",
                        !.ret = IF mr.last_error # None THEN MrErr("last")
                                ELSE MrErr("Unknown error")]
    /\ MrFrame

---------------------------------------------------------------------------
(* MinecraftLauncher::launch_minecraft (launcher.rs)                       *)
(* lm holds the call: the arguments (version, username, ram_mb, game_dir), *)
(* the locals the code keeps between its awaits, the position pc, and the  *)
(* result: Ok(command) is pc = "ok" with program and args, Err is "err".   *)

\* does s start with sub
StartsWith(s, sub) ==
    Len(sub) <= Len(s) /\ SubSeq(s, 1, Len(sub)) = sub

\* str::contains(sub)
Contains(s, sub) == \E i \in 0..(Len(s) - Len(sub)) : SubSeq(s, i + 1, i + Len(sub)) = sub

\* utils.rs parse_version: the three leading dot-separated numbers, 0 for a
\* missing or unparsable one
parse_version(s) ==
    LET parts == Split(s, ".")
        num(i) == IF i <= Len(parts) /\ IsSome(ParseU32(parts[i]))
                  THEN Unwrap(ParseU32(parts[i])) ELSE 0
    IN <<num(1), num(2), num(3)>>

\* a gate that parses the whole identifier, whatever it contains
is_at_least_1_8_WholeId(v) ==
    LET p == parse_version(v)
    IN p[1] > 1 \/ (p[1] = 1 /\ p[2] >= 8)

\* utils.rs is_at_least_1_8
is_at_least_1_8(v) ==
    LET pieces == Split(v, "-")
        version_str == IF Contains(v, <<"f", "a", "b", "r", "i", "c">>) THEN pieces[Len(pieces)] ELSE v
        p == parse_version(version_str)
    IN p[1] > 1 \/ (p[1] = 1 /\ p[2] >= 8)

RECURSIVE u32_to_string(_)
\* u32::to_string
u32_to_string(n) ==
    IF n < 10 THEN <<DigitChars[n + 1]>>
    ELSE u32_to_string(n \div 10) \o <<DigitChars[(n % 10) + 1]>>

assets_dir == <<"a", "s", "s", "e", "t", "s">>

DefaultMainClass == <<"n", "e", "t", ".", "m", "i", "n", "e", "c", "r", "a", "f", "t", ".", "c", "l", "i", "e", "n", "t", ".", "m", "a", "i", "n", ".", "M", "a", "i", "n">>

\* Option::map(|a| a.id) on the assetIndex of a descriptor
AssetIndexId(json) ==
    IF IsSome(json.asset_index) THEN Some(Unwrap(json.asset_index).id) ELSE None

LmIdle ==
    [pc |-> "idle", version |-> << >>, username |-> << >>, ram_mb |-> 0,
     game_dir |-> << >>, version_json |-> None, natives_dir |-> << >>,
     main_class |-> None, asset_index_id |-> None, program |-> None,
     args |-> << >>, err |-> ""]

\* launch_minecraft(version, username, ram_mb, game_dir) is called
LmCalled(version, username, ram_mb, game_dir) ==
    [LmIdle EXCEPT !.pc = "call", !.version = version, !.username = username,
                   !.ram_mb = ram_mb, !.game_dir = game_dir]

LmFail(msg) == [lm EXCEPT !.pc = "err", !.err = msg]

\* lines 242-252: the version gate, the descriptor of `version`, and the call
\* of get_required_java_version(version)
LmCall ==
    /\ lm.pc = "call"
    /\ IF ~is_at_least_1_8(lm.version)
       THEN /\ lm' = LmFail("Versions below 1.8 are not supported")
            /\ UNCHANGED jvVars
       ELSE IF ~VersionFile(lm.version).exists
       THEN lm' = LmFail("io error") /\ UNCHANGED jvVars
       ELSE IF IsNone(VersionFile(lm.version).json)
       THEN lm' = LmFail("serde_json error") /\ UNCHANGED jvVars
       ELSE /\ lm' = [lm EXCEPT !.pc = "java",
                                !.version_json = VersionFile(lm.version).json]
            /\ jv_pc' = "call"
            /\ jv_version' = lm.version
            /\ jv_ret' = None
            /\ jv_visited' = <<lm.version>>
    /\ UNCHANGED <<disk, op, jars, ilaVars, cpVars, javaVars, uiVars, apVars, fabVars, natVars>>

\* lines 252-264: find_java(Some(required_java)), the JAR of the base
\* version and the natives directory
LmFindJava ==
    /\ lm.pc = "java"
    /\ jv_pc \in {"ok", "err"}
    /\ IF jv_pc = "err"
       THEN lm' = LmFail("get_required_java_version")
       ELSE IF Launcher_find_java(Unwrap(jv_ret)) = {}
       THEN lm' = LmFail("Java not found")
       ELSE LET json == Unwrap(lm.version_json)
                jar_version == IF IsSome(json.inherits_from)
                               THEN Unwrap(json.inherits_from) ELSE lm.version
                natives_version == jar_version
            IN IF jar_version \notin jars
               THEN lm' = LmFail("Version JAR not found")
               ELSE \E java_path \in Launcher_find_java(Unwrap(jv_ret)) :
                       lm' = [lm EXCEPT
                                !.pc = "natives",
                                !.program = Some(java_path),
                                !.natives_dir =
                                    PathJoin(PathJoin(versions_dir, natives_version),
                                             <<"n", "a", "t", "i", "v", "e", "s">>)]
    /\ UNCHANGED <<disk, op, jars, resolveVars, javaVars, uiVars, apVars, fabVars, natVars>>

\* lines 352-372: main class and asset index of the descriptor, completed
\* from the descriptor named by inheritsFrom, and the call of build_classpath
LmResolve ==
    /\ lm.pc = "resolve"
    /\ nat.pc \in {"ok", "err"}
    /\ LET json == Unwrap(lm.version_json)
           own_main == json.main_class
           own_asset == AssetIndexId(json)
           has_parent == /\ IsSome(json.inherits_from)
                         /\ VersionFile(Unwrap(json.inherits_from)).exists
           parent_file == VersionFile(Unwrap(json.inherits_from))
       IN IF nat.pc = "err"
          THEN lm' = LmFail(nat.err) /\ UNCHANGED cpVars
          ELSE IF has_parent /\ IsNone(parent_file.json)
          THEN lm' = LmFail("serde_json error") /\ UNCHANGED cpVars
          ELSE /\ lm' = [lm EXCEPT
                           !.pc = "classpath",
                           !.main_class =
                               IF has_parent /\ IsNone(own_main)
                               THEN IF IsSome(Unwrap(parent_file.json).main_class)
                                    THEN Unwrap(parent_file.json).main_class
                                    ELSE Some(DefaultMainClass)
                               ELSE IF IsNone(own_main) THEN Some(DefaultMainClass)
                               ELSE own_main,
                           !.asset_index_id =
                               IF has_parent /\ IsNone(own_asset)
                               THEN AssetIndexId(Unwrap(parent_file.json))
                               ELSE own_asset]
               /\ cp_pc' = "while"
               /\ cp_start' = lm.version
               /\ cp_current' = Some(lm.version)
               /\ UNCHANGED <<cp_version, cp_json, cp_i, cp_paths, cp_seen, cp_jar,
                              cp_ret, cp_err, cp_visited, cp_src>>
    /\ UNCHANGED <<disk, op, jars, ilaVars, jvVars, javaVars, uiVars, apVars, fabVars, natVars>>

\* a command that always names an asset index, an empty one when none is
\* resolved, and names it after the fixed trailing arguments
CommandArgs_IndexLast(ram_mb, natives_path, classpath, main_class, username, version, game_dir, asset_index_id) ==
    << <<"-", "X", "m", "x">> \o u32_to_string(ram_mb) \o <<"M">>,
       <<"-", "X", "m", "s">> \o u32_to_string(ram_mb \div 2) \o <<"M">>,
       <<"-", "D", "j", "a", "v", "a", ".", "l", "i", "b", "r", "a", "r", "y", ".", "p", "a", "t", "h", "=">> \o natives_path,
       <<"-", "c", "p">>, classpath, main_class,
       <<"-", "-", "u", "s", "e", "r", "n", "a", "m", "e">>, username,
       <<"-", "-", "v", "e", "r", "s", "i", "o", "n">>, version,
       <<"-", "-", "g", "a", "m", "e", "D", "i", "r">>, game_dir,
       <<"-", "-", "a", "s", "s", "e", "t", "s", "D", "i", "r">>, assets_dir,
       <<"-", "-", "a", "c", "c", "e", "s", "s", "T", "o", "k", "e", "n">>, <<"0">>, <<"-", "-", "u", "s", "e", "r", "P", "r", "o", "p", "e", "r", "t", "i", "e", "s">>, <<"{", "}">>,
       <<"-", "-", "a", "s", "s", "e", "t", "I", "n", "d", "e", "x">>,
       IF IsSome(asset_index_id) THEN Unwrap(asset_index_id) ELSE << >> >>

\* lines 374-401: the arguments of the command, in the order of the .arg calls
CommandArgs(ram_mb, natives_path, classpath, main_class, username, version, game_dir, asset_index_id) ==
    << <<"-", "X", "m", "x">> \o u32_to_string(ram_mb) \o <<"M">>,
       <<"-", "X", "m", "s">> \o u32_to_string(ram_mb \div 2) \o <<"M">>,
       <<"-", "D", "j", "a", "v", "a", ".", "l", "i", "b", "r", "a", "r", "y", ".", "p", "a", "t", "h", "=">> \o natives_path,
       <<"-", "c", "p">>, classpath, main_class,
       <<"-", "-", "u", "s", "e", "r", "n", "a", "m", "e">>, username,
       <<"-", "-", "v", "e", "r", "s", "i", "o", "n">>, version,
       <<"-", "-", "g", "a", "m", "e", "D", "i", "r">>, game_dir,
       <<"-", "-", "a", "s", "s", "e", "t", "s", "D", "i", "r">>, assets_dir >>
    \o (IF IsSome(asset_index_id)
        THEN << <<"-", "-", "a", "s", "s", "e", "t", "I", "n", "d", "e", "x">>, Unwrap(asset_index_id) >>
        ELSE << >>)
    \o << <<"-", "-", "a", "c", "c", "e", "s", "s", "T", "o", "k", "e", "n">>, <<"0">>, <<"-", "-", "u", "s", "e", "r", "P", "r", "o", "p", "e", "r", "t", "i", "e", "s">>, <<"{", "}">> >>

\* lines 372-403: the result of build_classpath and the command
LmCommand ==
    /\ lm.pc = "classpath"
    /\ cp_pc \in {"ok", "err"}
    /\ IF cp_pc = "err"
       THEN lm' = LmFail(cp_err)
       ELSE lm' = [lm EXCEPT
                     !.pc = "ok",
                     !.args = CommandArgs(lm.ram_mb, lm.natives_dir, Unwrap(cp_ret),
                                          Unwrap(lm.main_class), lm.username,
                                          lm.version, lm.game_dir,
                                          lm.asset_index_id)]
    /\ UNCHANGED <<disk, op, jars, resolveVars, javaVars, uiVars, apVars, fabVars, natVars>>

---------------------------------------------------------------------------
(* The asset step of MinecraftLauncher::download_version (main.rs 395-422) *)
(* ap.objects is the `objects` map of the index the server holds, as the   *)
(* hashes of its entries in the order the HashMap iterates them; two       *)
(* entries (logical names) may carry the same hash.                        *)

ApIdle ==
    [pc |-> "idle", asset_index |-> None, objects |-> << >>, i |-> 0, run |-> 0,
     requests |-> << >>, full_at_start |-> FALSE, failed_at |-> 0]

\* line 398: indexes/<id>.json under assets_dir
IndexPath(id) == PathJoin(PathJoin(assets_dir, <<"i", "n", "d", "e", "x", "e", "s">>), id \o <<".", "j", "s", "o", "n">>)

\* lines 409-412: objects/<hash[0..2]>/<hash> under assets_dir
ObjectPath(hash) ==
    LET hash_prefix == SubSeq(hash, 1, 2) IN
    PathJoin(PathJoin(PathJoin(assets_dir, <<"o", "b", "j", "e", "c", "t", "s">>), hash_prefix), hash)

\* a step that fetches every entry of the index, cached or not
NeedsDownload_Always(object_path) == TRUE

\* line 414: `if !object_path.exists()`
NeedsDownload(object_path) == object_path \notin assets_files

IndexRequest(id) == [kind |-> "index", what |-> id]

\* line 415: the URL is made of the hash alone
ObjectRequest(hash) == [kind |-> "object", what |-> SubSeq(hash, 1, 2) \o <<"/">> \o hash]

\* is every file the step needs already on disk
FullyPopulated ==
    IsSome(ap.asset_index) =>
        /\ IndexPath(Unwrap(ap.asset_index).id) \in assets_files
        /\ \A k \in 1..Len(ap.objects) : ObjectPath(ap.objects[k]) \in assets_files

\* the step is entered: line 395
ApCalled(asset_index, objects, run) ==
    [ApIdle EXCEPT !.pc = "index", !.asset_index = asset_index,
                   !.objects = objects, !.run = run]

\* lines 395-406: the index is requested, written and parsed
ApIndex ==
    /\ ap.pc = "index"
    /\ IF IsNone(ap.asset_index)
       THEN ap' = [ap EXCEPT !.pc = "ok"] /\ UNCHANGED assets_files
       ELSE LET id == Unwrap(ap.asset_index).id
                sent == [ap EXCEPT !.requests = Append(@, IndexRequest(id)),
                                   !.full_at_start = FullyPopulated]
            IN \E outcome \in {"transport error", "not an index", "index"} :
                  IF outcome = "transport error"
                  THEN /\ ap' = [sent EXCEPT !.pc = "err"]
                       /\ UNCHANGED assets_files
                  ELSE /\ assets_files' = assets_files \cup {IndexPath(id)}
                       /\ ap' = IF outcome = "index"
                                THEN [sent EXCEPT !.pc = "objects", !.i = 1]
                                ELSE [sent EXCEPT !.pc = "err"]
    /\ UNCHANGED <<disk, op, resolveVars, javaVars, uiVars, lmVars, fabVars, natVars>>

\* lines 408-421: one iteration of `for (_key, obj) in asset_index_json.objects`
ApObject ==
    /\ ap.pc = "objects"
    /\ ap.i <= Len(ap.objects)
    /\ LET hash == ap.objects[ap.i]
           object_path == ObjectPath(hash)
       IN IF NeedsDownload(object_path)
          THEN LET sent == [ap EXCEPT !.requests = Append(@, ObjectRequest(hash))]
               IN \E outcome \in {"transport error", "write error", "written"} :
                     IF outcome = "transport error"
                     THEN /\ ap' = [sent EXCEPT !.pc = "err", !.failed_at = ap.i]
                          /\ UNCHANGED assets_files
                     ELSE /\ assets_files' = assets_files \cup {object_path}
                          /\ ap' = IF outcome = "written"
                                   THEN [sent EXCEPT !.i = @ + 1]
                                   ELSE [sent EXCEPT !.pc = "err",
                                                     !.failed_at = ap.i]
          ELSE ap' = [ap EXCEPT !.i = @ + 1] /\ UNCHANGED assets_files
    /\ UNCHANGED <<disk, op, resolveVars, javaVars, uiVars, lmVars, fabVars, natVars>>

\* line 424: the loop is over, Ok(())
ApReturn ==
    /\ ap.pc = "objects"
    /\ ap.i > Len(ap.objects)
    /\ ap' = [ap EXCEPT !.pc = "ok"]
    /\ UNCHANGED assets_files
    /\ UNCHANGED <<disk, op, resolveVars, javaVars, uiVars, lmVars, fabVars, natVars>>

MaxRuns == 2

\* the version is downloaded again: the step runs once more on the files the
\* earlier runs left
ApAgain ==
    /\ ap.pc \in {"ok", "err"}
    /\ ap.run < MaxRuns
    /\ ap' = ApCalled(ap.asset_index, ap.objects, ap.run + 1)
    /\ UNCHANGED assets_files
    /\ UNCHANGED <<disk, op, resolveVars, javaVars, uiVars, lmVars, fabVars, natVars>>

---------------------------------------------------------------------------
(* MinecraftLauncher::install_fabric (launcher.rs 647-711)                  *)
(* An entry of versions_dir is [name, is_dir, modified]; modified is None   *)
(* when the metadata cannot be read, and time 0 is UNIX_EPOCH.              *)

FabIdle ==
    [pc |-> "idle", mc_version |-> << >>, installer_cached |-> FALSE,
     java_path |-> None, exit |-> None, stderr |-> << >>, scanned |-> FALSE,
     ret |-> None, err |-> << >>, ui |-> "none", version_to_launch |-> None]

\* install_fabric(mc_version) is called
FabCalled(mc_version, installer_cached) ==
    [FabIdle EXCEPT !.pc = "fetch", !.mc_version = mc_version,
                    !.installer_cached = installer_cached]

FabFail(msg) == [fab EXCEPT !.pc = "err", !.err = msg]

\* str::ends_with(suffix)
EndsWith(str, suffix) ==
    Len(suffix) <= Len(str)
    /\ SubSeq(str, Len(str) - Len(suffix) + 1, Len(str)) = suffix

InvalidByte == "0xFF"

ReplacementChar == "U+FFFD"

\* String::from_utf8_lossy: every invalid byte becomes U+FFFD
from_utf8_lossy(bytes) ==
    [k \in 1..Len(bytes) |-> IF bytes[k] = InvalidByte THEN ReplacementChar
                             ELSE bytes[k]]

\* the outputs of the installer subprocess
InstallerStderr == {<< >>, <<"b", "o", "o", "m">>, <<"n", "o", InvalidByte>>}

\* exit codes; "signal" is a process killed by a signal (no code, not success)
InstallerExits == {"0", "1", "signal"}

\* lines 648-660: the installer JAR is downloaded unless it is cached
FabFetch ==
    /\ fab.pc = "fetch"
    /\ \E ok \in BOOLEAN :
          IF fab.installer_cached \/ ok
          THEN fab' = [fab EXCEPT !.pc = "java", !.installer_cached = TRUE]
          ELSE fab' = FabFail(<<"d", "o", "w", "n", "l", "o", "a", "d", " ", "e", "r", "r", "o", "r">>)
    /\ UNCHANGED versions_entries
    /\ UNCHANGED <<disk, op, resolveVars, javaVars, uiVars, lmVars, apVars, natVars>>

\* line 662: find_java(None), which accepts a Java of any version
FabFindJava ==
    /\ fab.pc = "java"
    /\ IF DOMAIN env.version = {}
       THEN fab' = FabFail(<<"J", "a", "v", "a", " ", "n", "o", "t", " ", "f", "o", "u", "n", "d">>)
       ELSE \E java_path \in DOMAIN env.version :
               fab' = [fab EXCEPT !.pc = "run", !.java_path = Some(java_path)]
    /\ UNCHANGED versions_entries
    /\ UNCHANGED <<disk, op, resolveVars, javaVars, uiVars, lmVars, apVars, natVars>>

NewestTime == IF versions_entries = {} THEN 0
              ELSE CHOOSE t \in {IF IsSome(e.modified) THEN Unwrap(e.modified) ELSE 0 :
                                   e \in versions_entries} :
                     \A e \in versions_entries :
                        IsSome(e.modified) => Unwrap(e.modified) <= t

\* the profile directory the installer writes for mc_version
InstalledFabricDir(mc_version) ==
    [name |-> <<"f", "a", "b", "r", "i", "c", "-", "l", "o", "a", "d", "e", "r", "-", "0", ".", "1", "5", ".", "0", "-">>
                \o mc_version,
     is_dir |-> TRUE, modified |-> Some(NewestTime + 1)]

\* lines 664-677: `java -jar fabric-installer.jar client ...` runs to its end;
\* an installer that succeeds has written its profile directory, one that
\* fails may have written it or not
FabRun ==
    /\ fab.pc = "run"
    /\ \E spawned \in BOOLEAN, exit \in InstallerExits, stderr \in InstallerStderr,
          wrote \in BOOLEAN :
          IF ~spawned
          THEN /\ fab' = FabFail(<<"s", "p", "a", "w", "n", " ", "e", "r", "r", "o", "r">>)
               /\ UNCHANGED versions_entries
          ELSE /\ exit = "0" => wrote
               /\ fab' = [fab EXCEPT !.pc = "status", !.exit = Some(exit),
                                     !.stderr = stderr]
               /\ versions_entries' =
                     IF wrote
                     THEN {e \in versions_entries :
                              e.name # InstalledFabricDir(fab.mc_version).name}
                          \cup {InstalledFabricDir(fab.mc_version)}
                     ELSE versions_entries
    /\ UNCHANGED <<disk, op, resolveVars, javaVars, uiVars, lmVars, apVars, natVars>>

\* an install_fabric that goes on to the scan whatever the exit status
FabStatus_IgnoreExit ==
    /\ fab.pc = "status"
    /\ fab' = [fab EXCEPT !.pc = "scan"]
    /\ UNCHANGED versions_entries
    /\ UNCHANGED <<disk, op, resolveVars, javaVars, uiVars, lmVars, apVars, natVars>>

\* lines 679-682: `if !output.status.success()`
FabStatus ==
    /\ fab.pc = "status"
    /\ IF Unwrap(fab.exit) # "0"
       THEN fab' = FabFail(<<"F", "a", "b", "r", "i", "c", " ", "i", "n", "s", "t", "a", "l", "l", "a", "t", "i", "o", "n", " ", "f", "a", "i", "l", "e", "d", ":", " ">> \o from_utf8_lossy(fab.stderr))
       ELSE fab' = [fab EXCEPT !.pc = "scan"]
    /\ UNCHANGED versions_entries
    /\ UNCHANGED <<disk, op, resolveVars, javaVars, uiVars, lmVars, apVars, natVars>>

\* lines 695-700: the entries the scan considers
FabricMatches(mc_version) ==
    {e \in versions_entries :
        /\ e.is_dir
        /\ Contains(e.name, <<"f", "a", "b", "r", "i", "c", "-", "l", "o", "a", "d", "e", "r">>)
        /\ EndsWith(e.name, <<"-">> \o mc_version)
        /\ IsSome(e.modified)
        /\ Unwrap(e.modified) > 0}

\* lines 684-710: read_dir yields the entries in any order and the scan keeps
\* the first of the most recently modified ones
FabScan ==
    /\ fab.pc = "scan"
    /\ \E readable \in BOOLEAN :
          IF ~readable
          THEN fab' = [FabFail(<<"r", "e", "a", "d", "_", "d", "i", "r", " ", "e", "r", "r", "o", "r">>) EXCEPT !.scanned = TRUE]
          ELSE LET matches == FabricMatches(fab.mc_version)
                   newest == {e \in matches :
                                \A f \in matches :
                                   Unwrap(f.modified) <= Unwrap(e.modified)}
               IN IF matches = {}
                  THEN fab' = [FabFail(<<"C", "o", "u", "l", "d", " ", "n", "o", "t", " ", "f", "i", "n", "d", " ", "i", "n", "s", "t", "a", "l", "l", "e", "d", " ", "F", "a", "b", "r", "i", "c", " ", "v", "e", "r", "s", "i", "o", "n", " ", "d", "i", "r", "e", "c", "t", "o", "r", "y">>) EXCEPT !.scanned = TRUE]
                  ELSE \E e \in newest :
                          fab' = [fab EXCEPT !.pc = "ok", !.scanned = TRUE,
                                             !.ret = Some(e.name)]
    /\ UNCHANGED versions_entries
    /\ UNCHANGED <<disk, op, resolveVars, javaVars, uiVars, lmVars, apVars, natVars>>

---------------------------------------------------------------------------
(* Native extraction.  Three pieces of code do it:                          *)
(*   "library_manager"  LibraryManager::check_and_extract_natives           *)
(*   "launcher"         the repair inside launch_minecraft (launcher.rs)    *)
(*   "main"             the library loop of download_version (main.rs)      *)
(* natives_dir is None when the directory does not exist, else its files    *)
(* and the directories created below (or beside) it, as paths relative to   *)
(* it.  A library is [name, rules, native_by, exclude, archive]: native_by  *)
(* tells how its native artifact is named ("natives_map": natives[os] and   *)
(* classifiers; "classifier": a natives-linux classifier; "artifact_path":  *)
(* natives-linux in the artifact's path or the library's name; "none"), and *)
(* archive is the sequence of member names of the archive the URL serves.   *)

NatIdle ==
    [pc |-> "idle", impl |-> "", descriptor |-> "missing", libraries |-> << >>,
     i |-> 0, has_natives |-> FALSE, dir_at_call |-> None, requests |-> << >>,
     written |-> << >>, failed |-> {}, clean |-> {}, entered |-> {}, err |-> ""]

\* a natives directory that holds a file, and one that holds nothing
PopulatedDir == Some([files |-> {<<"l", "i", "b", "o", "l", "d", ".", "s", "o">>}, dirs |-> {}])

EmptyDir == Some([files |-> {}, dirs |-> {}])

NatCalled(impl, descriptor, libraries) ==
    [NatIdle EXCEPT !.pc = "check", !.impl = impl, !.descriptor = descriptor,
                    !.libraries = libraries, !.dir_at_call = natives_dir]

\* a check that always finds the natives missing
NativesOk_Never(dir) == FALSE

\* natives_dir.exists() && read_dir(natives_dir).count() > 0
NativesOk(dir) == IsSome(dir) /\ Unwrap(dir).files \cup Unwrap(dir).dirs # {}

NonEmptyPiece(c) == c # << >>

\* Path::components of a relative path: the pieces between the slashes
Components(name) == SelectSeq(Split(name, "/"), NonEmptyPiece)

\* Path::file_name: None when the path ends in ".." (or has no component)
file_name(name) ==
    LET comps == Components(name) IN
    IF comps = << >> \/ comps[Len(comps)] = <<".", ".">> THEN None
    ELSE Some(comps[Len(comps)])

\* the `filename` of the extraction loop: file_name().unwrap_or(&name)
OutName(name) == IF IsSome(file_name(name)) THEN Unwrap(file_name(name)) ELSE name

\* outpath.parent(), relative to the natives directory (<< >> is the
\* natives directory itself)
OutParent(filename) ==
    LET comps == Components(filename) IN
    IF Len(comps) <= 1 THEN << >> ELSE JoinWith(SubSeq(comps, 1, Len(comps) - 1), "/")

\* File::create(outpath) succeeds unless outpath names a directory
CanCreate(filename) == IsSome(file_name(filename))

\* an extraction that keeps every member, excluded or not
IsExcluded_Never(name, exclude) == FALSE

\* exclude.iter().any(|ex| name.starts_with(ex))
IsExcluded(name, exclude) == \E j \in 1..Len(exclude) : StartsWith(name, exclude[j])

RECURSIVE ExtractFrom(_, _, _, _, _, _)
\* the `for i in 0..archive.len()` loop from member k on.  bad is the member
\* whose by_index fails (0: none).  strict is main.rs, where every failure
\* leaves the loop through `?`; elsewhere a failing member is passed over.
ExtractFrom(archive, k, exclude, strict, bad, acc) ==
    IF k > Len(archive) THEN acc
    ELSE IF k = bad
    THEN IF strict THEN [acc EXCEPT !.ok = FALSE]
         ELSE ExtractFrom(archive, k + 1, exclude, strict, bad,
                          [acc EXCEPT !.ok = FALSE])
    ELSE LET name == archive[k] IN
         IF IsExcluded(name, exclude) \/ EndsWith(name, <<"/">>)
         THEN ExtractFrom(archive, k + 1, exclude, strict, bad, acc)
         ELSE LET filename == OutName(name)
                  made == IF OutParent(filename) = << >> THEN acc.dirs
                          ELSE acc.dirs \cup {OutParent(filename)}
              IN IF CanCreate(filename)
                 THEN ExtractFrom(archive, k + 1, exclude, strict, bad,
                         [acc EXCEPT !.dirs = made,
                                     !.written = Append(@, [member |-> k,
                                                            outpath |-> filename])])
                 ELSE IF strict THEN [acc EXCEPT !.dirs = made, !.ok = FALSE]
                 ELSE ExtractFrom(archive, k + 1, exclude, strict, bad,
                                  [acc EXCEPT !.dirs = made, !.ok = FALSE])

Extract(archive, exclude, strict, bad) ==
    ExtractFrom(archive, 1, exclude, strict, bad,
                [written |-> << >>, dirs |-> {}, ok |-> TRUE])

\* format!("{}.zip", lib.name.replace(":", "_"))
ZipName(lib) == ReplaceChar(lib.name, ":", "_") \o <<".", "z", "i", "p">>

\* does this code take the library for a native one
HasNativeArtifact(impl, lib) ==
    IF impl = "main" THEN lib.native_by = "natives_map"
    ELSE lib.native_by # "none"

\* the entry check: lines 83-97 of library_manager.rs, 269-277 of launcher.rs,
\* 307-313 of main.rs
NatCheck ==
    /\ nat.pc = "check"
    /\ IF nat.impl = "main"
       THEN /\ nat' = [nat EXCEPT !.pc = "libs", !.i = 1,
                                  !.has_natives = NativesOk(natives_dir)]
            /\ natives_dir' = IF NativesOk(natives_dir) THEN natives_dir
                              ELSE Some([files |-> {}, dirs |-> {}])
       ELSE /\ nat' = IF NativesOk(natives_dir) THEN [nat EXCEPT !.pc = "ok"]
                      ELSE IF nat.descriptor = "missing" THEN [nat EXCEPT !.pc = "ok"]
                      ELSE IF nat.descriptor = "corrupt"
                      THEN [nat EXCEPT !.pc = "err", !.err = "serde_json error"]
                      ELSE [nat EXCEPT !.pc = "libs", !.i = 1]
            /\ UNCHANGED natives_dir
    /\ UNCHANGED zips
    /\ UNCHANGED <<disk, op, resolveVars, javaVars, uiVars, lmVars, apVars, fabVars>>

\* what reqwest::get gives for the URL of a native artifact: no response, a
\* response whose status is not 2xx (its body is the server's error page),
\* or a 2xx response whose body is or is not a zip archive
NativeOutcomes == {"transport error", "error page", "not an archive", "archive"}

\* what one library entry does to the cached archive: the download of lines
\* 142-148 (library_manager.rs), 312-318 (launcher.rs), 337-344 (main.rs);
\* the body of any response is written, the status is not looked at
Downloaded(lib, outcome) ==
    IF outcome = "transport error" THEN zips
    ELSE [z \in DOMAIN zips \cup {ZipName(lib)} |->
            IF z = ZipName(lib) THEN outcome ELSE zips[z]]

\* the files of the natives directory after an extraction into it
Extracted(result) ==
    LET dir == IF IsSome(natives_dir) THEN Unwrap(natives_dir)
               ELSE [files |-> {}, dirs |-> {}]
    IN IF result.written = << >> /\ result.dirs = {} /\ IsNone(natives_dir)
       THEN natives_dir
       ELSE Some([files |-> dir.files \cup {result.written[k].outpath :
                                               k \in 1..Len(result.written)},
                  dirs |-> dir.dirs \cup result.dirs])

\* one iteration of `for lib in libraries`: library_manager.rs 100-182,
\* launcher.rs 279-348, main.rs 315-392
NatLib ==
    /\ nat.pc = "libs"
    /\ nat.i <= Len(nat.libraries)
    /\ LET lib == nat.libraries[nat.i]
           strict == nat.impl = "main"
           next == [nat EXCEPT !.i = @ + 1, !.entered = @ \cup {nat.i}]
       IN
       IF strict /\ ~is_library_allowed(lib, "linux")
       THEN nat' = next /\ UNCHANGED <<zips, natives_dir>>
       ELSE \E artifact_ok \in BOOLEAN :
            IF strict /\ ~artifact_ok
            THEN \* main.rs 321-332: the library's own JAR cannot be fetched
                 /\ nat' = [next EXCEPT !.pc = "err", !.err = "artifact"]
                 /\ UNCHANGED <<zips, natives_dir>>
            ELSE IF ~HasNativeArtifact(nat.impl, lib)
            THEN nat' = next /\ UNCHANGED <<zips, natives_dir>>
            ELSE \E outcome \in NativeOutcomes,
                    bad \in 0..Len(lib.archive) :
                 LET cached == ZipName(lib) \in DOMAIN zips
                     sent == IF cached THEN next
                             ELSE [next EXCEPT !.requests = Append(@, ZipName(lib))]
                     zips_after == IF cached THEN zips ELSE Downloaded(lib, outcome)
                     present == ZipName(lib) \in DOMAIN zips_after
                     result == IF present /\ zips_after[ZipName(lib)] = "archive"
                               THEN Extract(lib.archive, lib.exclude, strict, bad)
                               ELSE [written |-> << >>, dirs |-> {}, ok |-> FALSE]
                     noted == [sent EXCEPT
                                 !.written = @ \o [k \in 1..Len(result.written) |->
                                                     [lib |-> nat.i,
                                                      member |-> result.written[k].member,
                                                      outpath |-> result.written[k].outpath]],
                                 !.failed = IF result.ok THEN @ ELSE @ \cup {nat.i},
                                 !.clean = IF present /\ zips_after[ZipName(lib)] = "archive"
                                              /\ bad = 0
                                           THEN @ \cup {nat.i} ELSE @]
                 IN
                 /\ cached => outcome = "archive"
                 /\ (~present \/ zips_after[ZipName(lib)] # "archive") => bad = 0
                 /\ zips' = zips_after
                 /\ IF strict /\ ~present
                    THEN \* main.rs 338: `reqwest::get(..).await?`
                         /\ nat' = [sent EXCEPT !.pc = "err", !.err = "native archive",
                                                !.failed = @ \cup {nat.i}]
                         /\ UNCHANGED natives_dir
                    ELSE IF strict /\ nat.has_natives
                    THEN \* main.rs 346-348: `if has_natives { continue; }`
                         nat' = sent /\ UNCHANGED natives_dir
                    ELSE nat' = noted /\ natives_dir' = Extracted(result)
    /\ UNCHANGED <<disk, op, resolveVars, javaVars, uiVars, lmVars, apVars, fabVars>>

\* the loop is over: Ok(()) (for main.rs, the assets come next)
NatReturn ==
    /\ nat.pc = "libs"
    /\ nat.i > Len(nat.libraries)
    /\ nat' = [nat EXCEPT !.pc = "ok"]
    /\ UNCHANGED <<zips, natives_dir>>
    /\ UNCHANGED <<disk, op, resolveVars, javaVars, uiVars, lmVars, apVars, fabVars>>

\* launcher.rs 266-277: the natives of the base version are looked at and,
\* when missing, extracted again from the libraries of its descriptor
LmNatives ==
    /\ lm.pc = "natives"
    /\ LET json == Unwrap(lm.version_json)
           natives_version == IF IsSome(json.inherits_from)
                              THEN Unwrap(json.inherits_from) ELSE lm.version
           file == VersionFile(natives_version)
           readable == file.exists /\ IsSome(file.json)
       IN nat' = NatCalled("launcher",
                           IF ~file.exists THEN "missing"
                           ELSE IF IsNone(file.json) THEN "corrupt" ELSE "ok",
                           IF readable THEN Unwrap(file.json).libraries ELSE << >>)
    /\ lm' = [lm EXCEPT !.pc = "resolve"]
    /\ UNCHANGED <<natives_dir, zips, jars>>
    /\ UNCHANGED <<disk, op, resolveVars, javaVars, uiVars, apVars, fabVars>>

---------------------------------------------------------------------------
(* Version identifiers and descriptors on disk *)

\* decimal digits of a number below 100 (used to write version strings)
Digits(n) == IF n < 10 THEN <<DigitChars[n + 1]>>
             ELSE <<DigitChars[(n \div 10) + 1], DigitChars[(n % 10) + 1]>>

\* "1.<minor>" for patch = None, "1.<minor>.<patch>" for patch = Some(p)
VersionStr(minor, patch) ==
    <<"1", ".">> \o Digits(minor)
    \o (IF IsNone(patch) THEN << >> ELSE <<".">> \o Digits(Unwrap(patch)))

V_1_19_4 == VersionStr(19, Some(4))

V_1_18_2 == VersionStr(18, Some(2))

V_1_21 == VersionStr(21, None)

FabricPrefix == <<"f", "a", "b", "r", "i", "c", "-", "l", "o", "a", "d", "e", "r", "-">>

\* "fabric-loader-0.14.21-1.19.4"
V_fabric == FabricPrefix \o <<"0", ".", "1", "4", ".", "2", "1", "-">> \o V_1_19_4

\* an identifier that only ever appears as a dangling inheritsFrom
V_gone == <<"g", "o", "n", "e">>

Minors == {7, 16, 17, 18, 19, 20, 21, 22}

Patches == {None} \cup {Some(p) : p \in {0, 2, 4, 5, 10}}

VanillaIds == {VersionStr(m, p) : m \in Minors, p \in Patches}

AbsentFile == [exists |-> FALSE, json |-> None]

CorruptFile == [exists |-> TRUE, json |-> None]

PresentFile(j) == [exists |-> TRUE, json |-> Some(j)]

EmptyDisk == [v \in {} |-> AbsentFile]

\* the disk holding one file
OneFile(v, file) == [w \in {v} |-> file]

\* How a chain of descriptors ends: the last one is a base version, inherits
\* from an identifier with no (or an unreadable) JSON, or inherits from the
\* k-th descriptor of the chain (a cycle).
Tails(n) == {[kind |-> "base", k |-> 0], [kind |-> "gone", k |-> 0],
             [kind |-> "corrupt", k |-> 0]}
            \cup {[kind |-> "cycle", k |-> k] : k \in 1..n}

\* the disk holding the chain ids[1] -> ids[2] -> ... with the given fields
ChainDisk(ids, java, libs, tail) ==
    LET n == Len(ids)
        parent(j) == IF j < n THEN Some(ids[j + 1])
                     ELSE IF tail.kind = "base" THEN None
                     ELSE IF tail.kind = "cycle" THEN Some(ids[tail.k])
                     ELSE Some(V_gone)
        json(j) == [inherits_from |-> parent(j),
                    java_version |-> java[j],
                    libraries |-> libs[j]]
    IN [v \in {ids[j] : j \in 1..n}
                \cup (IF tail.kind = "corrupt" THEN {V_gone} ELSE {}) |->
          IF v = V_gone THEN CorruptFile
          ELSE PresentFile(json(CHOOSE j \in 1..n : ids[j] = v))]

Distinct(ids) == \A i, j \in 1..Len(ids) : i # j => ids[i] # ids[j]

\* the chain ids[1] -> ids[2] -> ... of descriptors that also carry mainClass
\* and assetIndex; tail is "base", "gone" or "corrupt"
DescriptorDisk(ids, mains, assets, libs, tail) ==
    LET n == Len(ids)
        json(j) == [inherits_from |-> IF j < n THEN Some(ids[j + 1])
                                      ELSE IF tail = "base" THEN None
                                      ELSE Some(V_gone),
                    java_version |-> None,
                    libraries |-> libs[j],
                    main_class |-> mains[j],
                    asset_index |-> assets[j]]
    IN [v \in {ids[j] : j \in 1..n} \cup (IF tail = "corrupt" THEN {V_gone} ELSE {}) |->
          IF v = V_gone THEN CorruptFile
          ELSE PresentFile(json(CHOOSE j \in 1..n : ids[j] = v))]

---------------------------------------------------------------------------
(* Inputs of the classpath builder *)

MaxLibs == 3

ArtifactAt(path) == Some([artifact |-> Some([path |-> path])])

AllowLinuxOnly == Some(<<[action |-> "disallow", os |-> None],
                         [action |-> "allow", os |-> Some([name |-> Some("linux")])]>>)

AllowOsxOnly == Some(<<[action |-> "allow", os |-> Some([name |-> Some("osx")])]>>)

\* g:a:1 with an explicit artifact, no rules
LibA1 == [name |-> <<"g", ":", "a", ":", "1">>,
          downloads |-> ArtifactAt(<<"a", "1">> \o JarExt), rules |-> None]

\* g:a:2 (the coordinate of LibA1) with an explicit artifact, allowed on linux
LibA2 == [name |-> <<"g", ":", "a", ":", "2">>,
          downloads |-> ArtifactAt(<<"a", "2">> \o JarExt), rules |-> AllowLinuxOnly]

\* g:a:3 (the coordinate of LibA1) with an explicit artifact, denied on linux
LibDenied == [name |-> <<"g", ":", "a", ":", "3">>,
              downloads |-> ArtifactAt(<<"a", "3">> \o JarExt), rules |-> AllowOsxOnly]

\* h:b:1 without artifact info; libs/h/b/1/b-1.jar exists
LibOnDisk == [name |-> <<"h", ":", "b", ":", "1">>, downloads |-> None, rules |-> None]

\* h:b:2 (the coordinate of LibOnDisk) without artifact info and without file
LibNoFile == [name |-> <<"h", ":", "b", ":", "2">>, downloads |-> None, rules |-> None]

LibUniverse == {LibA1, LibA2, LibDenied, LibOnDisk, LibNoFile}

CpChainIds == <<V_fabric, V_1_19_4, V_1_18_2>>

NoJava(n) == [j \in 1..n |-> None]

\* the libraries of an n-descriptor chain: `all` cut at c1 and c2
CutLibs(n, all, c1, c2) ==
    [j \in 1..n |->
        IF j = 1 THEN SubSeq(all, 1, IF n = 1 THEN Len(all) ELSE c1)
        ELSE IF j = 2 THEN SubSeq(all, c1 + 1, IF n = 2 THEN Len(all) ELSE c2)
        ELSE SubSeq(all, c2 + 1, Len(all))]

CpIdle ==
    /\ cp_pc = "idle" /\ cp_start = << >> /\ cp_current = None
    /\ cp_version = << >> /\ cp_json = None /\ cp_i = 0 /\ cp_paths = << >>
    /\ cp_seen = {} /\ cp_jar = None /\ cp_ret = None /\ cp_err = ""
    /\ cp_visited = << >> /\ cp_src = << >>

JvIdle ==
    /\ jv_pc = "idle" /\ jv_version = << >> /\ jv_ret = None /\ jv_visited = << >>

IlaIdle ==
    /\ ila_lib = RuleLib(None) /\ ila_os = "linux" /\ ila_ret = None

\* a machine with no Java outside the runtimes directory; the runtime of
\* version ver, when installed, reports ver
NoSystemJava(ver) ==
    [java_home |-> None, which |-> << >>, version |-> << >>, link |-> << >>,
     rt_version |-> Some(ver)]

FjIdle == fj_pc = "idle" /\ fj_ret = None

InsIdle ==
    /\ ins_pc = "idle" /\ ins_archive = None /\ ins_renamed = FALSE
    /\ ins_ret = None

JavaIdle ==
    /\ env = NoSystemJava(8) /\ major = 8 /\ rt = None /\ tmp = None
    /\ FjIdle /\ InsIdle

UiCoreIdle ==
    /\ ui_state = "Ready" /\ pending_launch_profile = None
    /\ java_dialog_request = None /\ dialog_visible = FALSE
    /\ ui_queue = << >> /\ launch_tasks = 0 /\ prepare_tasks = 0
    /\ download_tasks = 0 /\ games = 0 /\ ui_clicks = 0 /\ ui_granted = 0

UiIdle == UiCoreIdle /\ pf = PfIdle /\ ic = IcIdle /\ mr = MrIdle /\ dl = DlIdle

LaunchIdle == lm = LmIdle /\ jars = {}

AssetsIdle == ap = ApIdle /\ assets_files = {}

FabricIdle == fab = FabIdle /\ versions_entries = {}

NativesIdle == nat = NatIdle /\ natives_dir = None /\ zips = << >>

GameIdle == LaunchIdle /\ AssetsIdle /\ FabricIdle /\ NativesIdle

\* build_classpath(start_version) is called: lines 152-157
CpCalled(start) ==
    /\ cp_pc = "while" /\ cp_start = start /\ cp_current = Some(start)
    /\ cp_version = << >> /\ cp_json = None /\ cp_i = 0 /\ cp_paths = << >>
    /\ cp_seen = {} /\ cp_jar = None /\ cp_ret = None /\ cp_err = ""
    /\ cp_visited = << >> /\ cp_src = << >>

InitCP ==
    /\ op = "classpath"
    /\ \E s \in 1..Len(CpChainIds), all \in BoundedSeq(LibUniverse, MaxLibs) :
       \E n \in 0..(Len(CpChainIds) - s + 1), c1 \in 0..Len(all) :
       \E c2 \in c1..Len(all), tail \in Tails(n) :
          /\ n = 0 => (all = << >> /\ s = 1 /\ tail.kind \in {"gone", "corrupt"})
          /\ n <= 1 => c1 = 0
          /\ n <= 2 => c2 = c1
          /\ disk = IF n = 0
                    THEN IF tail.kind = "corrupt"
                         THEN OneFile(CpChainIds[s], CorruptFile)
                         ELSE EmptyDisk
                    ELSE ChainDisk(SubSeq(CpChainIds, s, s + n - 1), NoJava(n),
                                   CutLibs(n, all, c1, c2), tail)
          /\ CpCalled(CpChainIds[s])
    /\ JvIdle
    /\ IlaIdle
    /\ JavaIdle
    /\ UiIdle
    /\ GameIdle

---------------------------------------------------------------------------
(* Inputs of get_required_java_version *)

JavaDecls == {None, Some([major_version |-> 8]), Some([major_version |-> 17])}

NoLibs(n) == [j \in 1..n |-> << >>]

\* get_required_java_version(version) is called
JvCalled(version) ==
    /\ jv_pc = "call" /\ jv_version = version /\ jv_ret = None
    /\ jv_visited = <<version>>

InitJV ==
    /\ op = "java"
    /\ \E start \in VanillaIds \cup {V_fabric}, second \in {V_1_19_4, V_1_21} :
       \E n \in 0..3 :
       \E java \in [1..n -> JavaDecls], tail \in Tails(n) :
          LET ids == SubSeq(<<start, second, V_1_18_2>>, 1, n) IN
          /\ Distinct(ids)
          /\ n = 0 => tail.kind \in {"gone", "corrupt"}
          /\ n < 2 => second = V_1_19_4
          /\ disk = IF n = 0
                    THEN IF tail.kind = "corrupt"
                         THEN OneFile(start, CorruptFile)
                         ELSE EmptyDisk
                    ELSE ChainDisk(ids, java, NoLibs(n), tail)
          /\ JvCalled(start)
    /\ CpIdle
    /\ IlaIdle
    /\ JavaIdle
    /\ UiIdle
    /\ GameIdle

---------------------------------------------------------------------------
(* The rule evaluator applied to one library *)

InitRules ==
    /\ op = "rules"
    /\ disk = EmptyDisk
    /\ ila_lib \in {RuleLib(None)} \cup {RuleLib(Some(l)) : l \in RuleLists}
    /\ ila_os \in OsNames
    /\ ila_ret = None
    /\ CpIdle
    /\ JvIdle
    /\ JavaIdle
    /\ UiIdle
    /\ GameIdle

IlaCall ==
    /\ op = "rules"
    /\ ila_ret = None
    /\ ila_ret' = Some(is_library_allowed(ila_lib, ila_os))
    /\ UNCHANGED <<disk, op, ila_lib, ila_os>> /\ UNCHANGED nonIlaVars

---------------------------------------------------------------------------
(* Inputs of find_java and download_and_install_java *)

Majors == {8, 17}

\* the Java executables a machine may have outside the runtimes directory
SystemJavas == {P_home, P_usr, P_amd64(17), P_zulu}

RuntimeDirs == {None, Some({}), Some(Jdk)}

ResolveIdle == CpIdle /\ JvIdle /\ IlaIdle /\ disk = EmptyDisk

InitFindJava ==
    /\ op = "find_java"
    /\ major \in Majors
    /\ rt \in RuntimeDirs
    /\ tmp = None
    /\ \E files \in SUBSET SystemJavas, on_path \in BOOLEAN, linked \in BOOLEAN :
       \E version \in [files -> {Some(8), Some(17)}],
          rt_version \in {None, Some(major)} :
          /\ rt_version = None => Installed
          /\ linked => (P_usr \notin files /\ P_amd64(17) \in files)
          /\ on_path => (P_usr \in files \/ linked)
          /\ env = [java_home |-> IF P_home \in files THEN Some(P_home) ELSE None,
                    which |-> IF on_path THEN [c \in {P_java} |-> P_usr] ELSE << >>,
                    version |-> version,
                    link |-> IF linked THEN [l \in {P_usr} |-> P_amd64(17)]
                             ELSE << >>,
                    rt_version |-> rt_version]
    /\ fj_pc \in {"manager", "launcher"} /\ fj_ret = None
    /\ InsIdle
    /\ ResolveIdle
    /\ UiIdle
    /\ GameIdle

\* a machine whose only Java outside the runtimes directory is /usr/bin/java
OnlyUsrBinJava(ver, reports) ==
    [java_home |-> None, which |-> [c \in {P_java} |-> P_usr],
     version |-> [f \in {P_usr} |-> Some(reports)], link |-> << >>,
     rt_version |-> Some(ver)]

InitInstall ==
    /\ op = "install"
    /\ major \in Majors
    /\ rt \in RuntimeDirs
    /\ tmp = None
    /\ env \in {NoSystemJava(major), OnlyUsrBinJava(major, 17)}
    /\ FjIdle
    /\ ins_pc = "call" /\ ins_archive = None /\ ins_renamed = FALSE
    /\ ins_ret = None
    /\ ResolveIdle
    /\ UiIdle
    /\ GameIdle

---------------------------------------------------------------------------
(* Inputs of the message loop *)

InitUI ==
    /\ op = "ui"
    /\ major \in Majors
    /\ rt \in {None, Some(Jdk)}
    /\ tmp = None
    /\ env = NoSystemJava(major)
    /\ FjIdle
    /\ InsIdle
    /\ ResolveIdle
    /\ UiIdle
    /\ GameIdle

---------------------------------------------------------------------------
(* Inputs of launch_minecraft *)

\* the main class and the asset index a descriptor of the chain may define:
\* each level has its own, so that the level a value came from can be told
MainClassOf(j) == <<<<"K", "n", "o", "t", "C", "l", "i", "e", "n", "t">>, <<"L", "a", "u", "n", "c", "h">>, DefaultMainClass>>[j]

AssetIndexOf(j) == [id |-> <<<<"p", "a", "c", "k">>, <<"3">>, <<"1", ".", "1", "9">>>>[j]]

\* "fabric-pack-1.19.4": a profile built on the Fabric profile
LaunchChainIds == <<<<"f", "a", "b", "r", "i", "c", "-", "p", "a", "c", "k", "-", "1", ".", "1", "9", ".", "4">>, V_fabric, V_1_19_4>>

V_1_7_10 == VersionStr(7, Some(10))

Steve == <<"S", "t", "e", "v", "e">>

GameDir == <<"/", "h", "o", "m", "e", "/", "s", "t", "e", "v", "e", "/", ".", "m", "i", "n", "e", "c", "r", "a", "f", "t">>

RamSizes == {1025, 4096}

\* g:a:1 with an explicit artifact and a natives-linux classifier
LaunchLib ==
    [name |-> LibA1.name, downloads |-> LibA1.downloads, rules |-> None,
     native_by |-> "classifier", exclude |-> << >>, archive |-> <<<<"l", "i", "b", "g", "l", ".", "s", "o">>>>]

InitLaunch ==
    /\ op = "launch"
    /\ \E s \in 1..Len(LaunchChainIds) :
       \E n \in 0..(Len(LaunchChainIds) - s + 1), old \in BOOLEAN :
       \E mains \in [1..n -> BOOLEAN], assets \in [1..n -> BOOLEAN],
          tail \in {"base", "gone", "corrupt"}, has_lib \in BOOLEAN,
          has_jars \in BOOLEAN, ram_mb \in RamSizes :
          LET ids == IF old THEN <<V_1_7_10>>
                     ELSE SubSeq(LaunchChainIds, s, s + n - 1)
              start == IF old THEN V_1_7_10 ELSE LaunchChainIds[s]
          IN
          /\ old => (n = 1 /\ s = 1 /\ tail = "base")
          /\ n = 0 => (s = 1 /\ ~has_lib /\ ~has_jars /\ tail # "base")
          /\ has_lib => ram_mb = 1025
          /\ disk = IF n = 0
                    THEN IF tail = "corrupt" THEN OneFile(start, CorruptFile)
                         ELSE EmptyDisk
                    ELSE DescriptorDisk(
                           ids,
                           [j \in 1..n |-> IF mains[j] THEN Some(MainClassOf(j))
                                           ELSE None],
                           [j \in 1..n |-> IF assets[j] THEN Some(AssetIndexOf(j))
                                           ELSE None],
                           [j \in 1..n |-> IF j <= 2 /\ has_lib THEN <<LaunchLib>>
                                           ELSE << >>],
                           tail)
          /\ jars = IF has_jars THEN {ids[j] : j \in 1..n} \cup {V_gone} ELSE {}
          /\ lm = LmCalled(start, Steve, ram_mb, GameDir)
    /\ major = 17 /\ rt = None /\ tmp = None
    /\ env \in {NoSystemJava(17), OnlyUsrBinJava(17, 17), OnlyUsrBinJava(17, 8)}
    /\ FjIdle /\ InsIdle
    /\ CpIdle /\ JvIdle /\ IlaIdle
    /\ UiIdle
    /\ AssetsIdle
    /\ FabricIdle
    /\ natives_dir \in {None, PopulatedDir} /\ zips = << >> /\ nat = NatIdle


\* the numbers of a release: major.minor or major.minor.patch
GateMajors == {0, 1, 2}

GateMinors == {0, 7, 8, 19, 20}

GatePatches == {None, Some(1), Some(4), Some(10)}

GateVersions == [major : GateMajors, minor : GateMinors, patch : GatePatches]

\* format!("{}.{}", major, minor) or format!("{}.{}.{}", major, minor, patch)
Dotted(t) ==
    u32_to_string(t.major) \o <<".">> \o u32_to_string(t.minor)
    \o (IF IsNone(t.patch) THEN << >> ELSE <<".">> \o u32_to_string(Unwrap(t.patch)))

\* "fabric-loader-0.18.4-<release>"
FabricIdOf(t) == FabricPrefix \o <<"0", ".", "1", "8", ".", "4", "-">> \o Dotted(t)

\* launch_minecraft is called for an identifier that has no descriptor
InitGate ==
    /\ op = "launch"
    /\ disk = EmptyDisk
    /\ jars = {}
    /\ \E t \in GateVersions :
       \E v \in {Dotted(t), FabricIdOf(t)} :
          lm = LmCalled(v, Steve, 4096, GameDir)
    /\ major = 17 /\ rt = None /\ tmp = None
    /\ env = NoSystemJava(17)
    /\ FjIdle /\ InsIdle
    /\ CpIdle /\ JvIdle /\ IlaIdle
    /\ UiIdle
    /\ AssetsIdle
    /\ FabricIdle
    /\ natives_dir = None /\ zips = << >> /\ nat = NatIdle

---------------------------------------------------------------------------
(* Inputs of the asset step *)

MaxObjects == 3

\* content hashes: the first two share their two-character prefix
Hashes == {<<"a", "b", "1", "2">>, <<"a", "b", "3", "4">>, <<"c", "d", "5", "6">>}

AssetIndexes == {None, Some([id |-> <<"3">>])}

InitAssets ==
    /\ op = "assets"
    /\ \E asset_index \in AssetIndexes, objects \in BoundedSeq(Hashes, MaxObjects),
          cached \in SUBSET Hashes, has_index \in BOOLEAN :
          /\ IsNone(asset_index) => (objects = << >> /\ cached = {} /\ ~has_index)
          /\ ap = ApCalled(asset_index, objects, 1)
          /\ assets_files = {ObjectPath(h) : h \in cached}
                            \cup (IF has_index
                                  THEN {IndexPath(Unwrap(asset_index).id)} ELSE {})
    /\ LaunchIdle
    /\ FabricIdle
    /\ NativesIdle
    /\ JavaIdle
    /\ ResolveIdle
    /\ UiIdle

---------------------------------------------------------------------------
(* The Fabric lookup of the launch thread: ui.rs LaunchProfile *)

\* ui.rs 804-820: LaunchProfile of a Fabric profile spawns the launch thread
UiLaunchProfile(version, installer_cached) ==
    [FabIdle EXCEPT !.mc_version = version, !.installer_cached = installer_cached,
                    !.ui = "lookup"]

\* ui.rs 829-830: the test on an entry's name; neither the kind of the entry
\* nor its modification time is looked at
UiFabricMatches(version) ==
    {e \in versions_entries :
        /\ Contains(e.name, <<"f", "a", "b", "r", "i", "c", "-", "l", "o", "a", "d", "e", "r">>)
        /\ EndsWith(e.name, <<"-">> \o version)}

\* ui.rs 826-846: read_dir yields the entries in any order and the loop
\* breaks at the first match; a directory that cannot be read gives None;
\* without a match install_fabric is called
UiFabricLookup ==
    /\ fab.ui = "lookup"
    /\ \E readable \in BOOLEAN :
          IF readable /\ UiFabricMatches(fab.mc_version) # {}
          THEN \E e \in UiFabricMatches(fab.mc_version) :
                  fab' = [fab EXCEPT !.ui = "launch",
                                     !.version_to_launch = Some(e.name)]
          ELSE fab' = [FabCalled(fab.mc_version, fab.installer_cached)
                          EXCEPT !.ui = "installing"]
    /\ UNCHANGED versions_entries
    /\ UNCHANGED <<disk, op, resolveVars, javaVars, uiVars, lmVars, apVars, natVars>>

\* ui.rs 847-856: the result of install_fabric is the identifier to launch,
\* its error is sent as AppMsg::Error and ends the thread
UiFabricResult ==
    /\ fab.ui = "installing"
    /\ fab.pc \in {"ok", "err"}
    /\ IF fab.pc = "ok"
       THEN fab' = [fab EXCEPT !.ui = "launch", !.version_to_launch = fab.ret]
       ELSE fab' = [fab EXCEPT !.ui = "error"]
    /\ UNCHANGED versions_entries
    /\ UNCHANGED <<disk, op, resolveVars, javaVars, uiVars, lmVars, apVars, natVars>>

---------------------------------------------------------------------------
(* Inputs of install_fabric *)

\* what versions_dir may hold before the call
EarlierEntries ==
    {[name |-> V_1_19_4, is_dir |-> TRUE, modified |-> Some(1)],
     [name |-> V_fabric, is_dir |-> TRUE, modified |-> Some(2)],
     [name |-> V_fabric, is_dir |-> TRUE, modified |-> None],
     [name |-> FabricPrefix \o <<"0", ".", "1", "4", ".", "2", "1", "-">> \o V_1_18_2,
      is_dir |-> TRUE, modified |-> Some(3)],
     [name |-> FabricPrefix \o <<"0", ".", "1", "3", "-">> \o V_1_19_4,
      is_dir |-> FALSE, modified |-> Some(4)],
     [name |-> FabricPrefix \o <<"0", ".", "1", "2", "-">> \o V_1_19_4,
      is_dir |-> TRUE, modified |-> Some(1)]}

InitFabric ==
    /\ op = "fabric"
    /\ versions_entries \in SUBSET EarlierEntries
    /\ \A e, f \in versions_entries : e.name = f.name => e = f
    /\ \E mc_version \in {V_1_19_4, V_1_18_2}, installer_cached \in BOOLEAN :
          \/ fab = FabCalled(mc_version, installer_cached)
          \/ fab = UiLaunchProfile(mc_version, installer_cached)
    /\ major = 17 /\ rt = None /\ tmp = None
    /\ env \in {NoSystemJava(17), OnlyUsrBinJava(17, 17)}
    /\ FjIdle /\ InsIdle
    /\ ResolveIdle
    /\ UiIdle
    /\ LaunchIdle
    /\ AssetsIdle
    /\ NativesIdle

---------------------------------------------------------------------------
(* Inputs of native extraction *)

MaxMembers == 2

MaxNatives == 2

\* member names: a file at the top, a file in a directory, a directory entry,
\* a file under META-INF, and a path that ends in ".."
Members == {<<"l", "i", "b", "g", "l", ".", "s", "o">>, <<"x", "6", "4", "/", "l", "i", "b", "a", "l", ".", "s", "o">>, <<"M", "E", "T", "A", "-", "I", "N", "F", "/">>, <<"M", "E", "T", "A", "-", "I", "N", "F", "/", "M", "A", "N", "I", "F", "E", "S", "T", ".", "M", "F">>, <<"l", "i", "b", "/", ".", ".">>}

ExcludeLists == {<< >>, <<<<"M", "E", "T", "A", "-", "I", "N", "F", "/">>>>}

NativeLib(name, native_by, exclude, archive) ==
    [name |-> name, rules |-> None, downloads |-> None, native_by |-> native_by,
     exclude |-> exclude, archive |-> archive]

\* the libraries of a descriptor with several entries
BatchLibs ==
    {NativeLib(<<"o", "r", "g", ".", "l", "w", "j", "g", "l", ":", "l", "w", "j", "g", "l", ":", "3">>, "natives_map", <<<<"M", "E", "T", "A", "-", "I", "N", "F", "/">>>>, <<<<"M", "E", "T", "A", "-", "I", "N", "F", "/">>, <<"l", "i", "b", "g", "l", ".", "s", "o">>>>),
     NativeLib(<<"n", "e", "t", ".", "j", "a", "v", "a", ":", "j", "i", "n", "p", "u", "t", ":", "2">>, "classifier", << >>, <<<<"x", "6", "4", "/", "l", "i", "b", "a", "l", ".", "s", "o">>>>),
     NativeLib(<<"c", "o", "m", ".", "g", "o", "o", "g", "l", "e", ":", "g", "s", "o", "n", ":", "2">>, "none", << >>, << >>),
     [NativeLib(<<"c", "a", ".", "w", "e", "b", "l", "i", "t", "e", ":", "o", "b", "j", "c", ":", "1">>, "natives_map", << >>, <<<<"l", "i", "b", "g", "l", ".", "s", "o">>>>) EXCEPT !.rules = AllowOsxOnly]}

Impls == {"library_manager", "launcher", "main"}

\* one library whose archive is any short sequence of members
InitExtract ==
    /\ \E archive \in BoundedSeq(Members, MaxMembers), exclude \in ExcludeLists,
          impl \in Impls, cached \in BOOLEAN :
          LET lib == NativeLib(<<"o", "r", "g", ".", "l", "w", "j", "g", "l", ":", "l", "w", "j", "g", "l", ":", "3">>, "natives_map", exclude, archive) IN
          /\ natives_dir \in {None, EmptyDir}
          /\ zips = IF cached THEN [z \in {ZipName(lib)} |-> "archive"] ELSE << >>
          /\ nat = NatCalled(impl, "ok", <<lib>>)

\* a descriptor of several libraries, or none that can be read
InitBatch ==
    /\ \E libraries \in BoundedSeq(BatchLibs, MaxNatives), impl \in Impls,
          descriptor \in {"ok", "missing", "corrupt"},
          cached \in SUBSET {<<"o", "r", "g", ".", "l", "w", "j", "g", "l", ":", "l", "w", "j", "g", "l", ":", "3">>, <<"n", "e", "t", ".", "j", "a", "v", "a", ":", "j", "i", "n", "p", "u", "t", ":", "2">>} :
          /\ descriptor # "ok" => (libraries = << >> /\ impl # "main" /\ cached = {})
          /\ natives_dir \in {None, EmptyDir, PopulatedDir}
          /\ zips = [z \in {ReplaceChar(n, ":", "_") \o <<".", "z", "i", "p">> : n \in cached} |->
                       "archive"]
          /\ nat = NatCalled(impl, descriptor, libraries)

InitNatives ==
    /\ op = "natives"
    /\ InitExtract \/ InitBatch
    /\ LaunchIdle
    /\ AssetsIdle
    /\ FabricIdle
    /\ JavaIdle
    /\ ResolveIdle
    /\ UiIdle

---------------------------------------------------------------------------
(* Specifications *)

NextRules == IlaCall

SpecRules == InitRules /\ [][NextRules]_vars

InitResolve == InitCP \/ InitJV

NextResolve == CpWhile \/ CpForLib \/ CpInherit \/ CpFinish \/ JvCall

SpecResolve == InitResolve /\ [][NextResolve]_vars

InitJava == InitFindJava \/ InitInstall

NextJava ==
    \/ JavaManagerFindJava \/ LauncherFindJava
    \/ InsCall \/ InsFetch \/ InsDownload \/ InsTemp \/ InsExtract \/ InsLocate
    \/ InsRemoveTarget \/ InsRename \/ InsRemoveTemp \/ InsVerify \/ InsChmod
    \/ InsInterrupt \/ InsAgain

SpecJava == InitJava /\ [][NextJava]_vars

NextUI ==
    \/ UserLaunch \/ UserRespond \/ UserBack
    \/ OnLaunchProfile \/ LaunchTask \/ GameExit \/ TaskProgress \/ OnStateMsg
    \/ OnShowJavaDialog \/ OnJavaDownloadConfirmed \/ OnJavaDownloadCancelled
    \/ OnInstallJavaAndLaunch \/ PrepareJavaFind \/ PrepareJavaDownload
    \/ OnSessionEnded \/ SaveThread

SpecUI == InitUI /\ [][NextUI]_vars

\* the message loop with a user who also edits the profiles
NextSession ==
    \/ NextUI
    \/ UserSaveProfile \/ UserDeleteProfile \/ OnSaveProfile \/ OnDeleteProfile

SpecSession == InitUI /\ [][NextSession]_vars

\* the message loop while mod search results arrive
InitIcons ==
    /\ op = "icons"
    /\ major = 17 /\ rt = None /\ tmp = None
    /\ env = NoSystemJava(17)
    /\ FjIdle /\ InsIdle
    /\ ResolveIdle
    /\ UiCoreIdle
    /\ pf = PfIdle /\ mr = MrIdle /\ dl = DlIdle
    /\ \E cache \in SUBSET ProjectIds : ic = [IcIdle EXCEPT !.cache = cache]
    /\ GameIdle

\* an artifact with the URL it is served from
ArtifactFrom(path, url) == Some([artifact |-> Some([path |-> path, url |-> url])])

\* g:a:1 with an explicit artifact and its URL
DlLibA1 == [name |-> <<"g", ":", "a", ":", "1">>,
            downloads |-> ArtifactFrom(<<"a", "1">> \o JarExt, <<"u">>),
            rules |-> None]

\* k:c:1:n, a coordinate with the classifier n, without artifact info
DlLibClassified == [name |-> <<"k", ":", "c", ":", "1", ":", "n">>,
                    downloads |-> None, rules |-> None]

\* m.x:d:1 without artifact info, denied on linux
DlLibDenied == [name |-> <<"m", ".", "x", ":", "d", ":", "1">>,
                downloads |-> None, rules |-> AllowOsxOnly]

\* m.x:d:2 without artifact info, allowed on linux
DlLibDotted == [name |-> <<"m", ".", "x", ":", "d", ":", "2">>,
                downloads |-> None, rules |-> AllowLinuxOnly]

\* j:e, a name of two parts, without artifact info
DlLibShort == [name |-> <<"j", ":", "e">>, downloads |-> None, rules |-> None]

DlUniverse ==
    {DlLibA1, DlLibClassified, DlLibDenied, DlLibDotted, DlLibShort, LibOnDisk,
     LibNoFile}

\* check_and_download_libraries(version) is called for a descriptor of a few
\* libraries, or for one that is missing or unreadable
InitLibs ==
    /\ op = "libraries"
    /\ \E libs \in BoundedSeq(DlUniverse, MaxLibs),
          kind \in {"ok", "missing", "corrupt"} :
          /\ kind # "ok" => libs = << >>
          /\ disk = IF kind = "missing" THEN EmptyDisk
                    ELSE IF kind = "corrupt" THEN OneFile(V_1_19_4, CorruptFile)
                    ELSE ChainDisk(<<V_1_19_4>>, NoJava(1), <<libs>>,
                                   [kind |-> "base", k |-> 0])
    /\ dl = DlCalled(V_1_19_4)
    /\ CpIdle /\ JvIdle /\ IlaIdle
    /\ JavaIdle
    /\ UiCoreIdle
    /\ pf = PfIdle /\ ic = IcIdle /\ mr = MrIdle
    /\ GameIdle

NextLibs ==
    \/ DlCheck \/ DlForLib \/ DlReturn \/ DlThenClasspath
    \/ CpWhile \/ CpForLib \/ CpInherit \/ CpFinish

SpecLibs == InitLibs /\ [][NextLibs]_vars

\* one call of search_mods or of get_versions
InitModrinth ==
    /\ op = "modrinth"
    /\ major = 17 /\ rt = None /\ tmp = None
    /\ env = NoSystemJava(17)
    /\ FjIdle /\ InsIdle
    /\ ResolveIdle
    /\ UiCoreIdle
    /\ pf = PfIdle /\ ic = IcIdle /\ dl = DlIdle
    /\ \E fn \in {"search_mods", "get_versions"} : mr = MrCalled(fn)
    /\ GameIdle

NextModrinth == MrAttempt \/ MrExhausted

SpecModrinth == InitModrinth /\ [][NextModrinth]_vars

IconHandlers == OnDownloadModIcon \/ OnProcessIconQueue \/ OnModIconDownloaded

NextIcons == OnModsSearched \/ IconHandlers \/ IconWorker

SpecIcons == InitIcons /\ [][NextIcons]_vars

\* the main loop handles the messages it has and a worker thread runs to
\* its end
SpecIconsLive == SpecIcons /\ WF_vars(IconHandlers) /\ WF_vars(IconWorker)

NextLaunch ==
    \/ LmCall \/ LmFindJava \/ LmNatives \/ LmResolve \/ LmCommand
    \/ NatCheck \/ NatLib \/ NatReturn
    \/ JvCall \/ CpWhile \/ CpForLib \/ CpInherit \/ CpFinish

SpecLaunch == (InitLaunch \/ InitGate) /\ [][NextLaunch]_vars

NextAssets == ApIndex \/ ApObject \/ ApReturn \/ ApAgain

SpecAssets == InitAssets /\ [][NextAssets]_vars

NextFabric ==
    \/ FabFetch \/ FabFindJava \/ FabRun \/ FabStatus \/ FabScan
    \/ UiFabricLookup \/ UiFabricResult

SpecFabric == InitFabric /\ [][NextFabric]_vars

NextNatives == NatCheck \/ NatLib \/ NatReturn

SpecNatives == InitNatives /\ [][NextNatives]_vars

---------------------------------------------------------------------------
(* Claims about the rule evaluator *)

\* does the rule apply on this OS: no OS constraint, or the OS named
RuleApplies(rule, os) ==
    \/ IsNone(rule.os)
    \/ IsNone(Unwrap(rule.os).name)
    \/ Unwrap(Unwrap(rule.os).name) = os

DenyThenAllow(os) == <<[action |-> "deny", os |-> None],
                       [action |-> "allow", os |-> Some([name |-> Some(os)])]>>

\* C3: for a non-empty rule list the verdict of is_library_allowed is the
\* action of the LAST rule that applies on the current OS (denied when no
\* rule applies); in particular [{deny, no os}, {allow, os = CURRENT}] is
\* allowed on CURRENT.
C3_LastMatchingRuleWins ==
    (op = "rules" /\ IsSome(ila_ret) /\ IsSome(ila_lib.rules)
       /\ Unwrap(ila_lib.rules) # << >>) =>
        LET rules == Unwrap(ila_lib.rules)
            hit == {i \in 1..Len(rules) : RuleApplies(rules[i], ila_os)}
            last == CHOOSE i \in hit : \A j \in hit : j <= i
        IN /\ Unwrap(ila_ret) = (hit # {} /\ rules[last].action = "allow")
           /\ rules = DenyThenAllow(ila_os) => Unwrap(ila_ret) = TRUE

\* the deny-then-allow list has been evaluated on the OS it names
C3_Witness ==
    /\ op = "rules"
    /\ ila_ret = Some(TRUE)
    /\ ila_lib.rules = Some(DenyThenAllow(ila_os))


\* C22: is_library_allowed returns true, on every OS, for a library that has
\* no rules: no rule list, or a rule list with no entries.
C22_NoRulesAllowed ==
    (/\ op = "rules"
     /\ IsSome(ila_ret)
     /\ (IsNone(ila_lib.rules) \/ Unwrap(ila_lib.rules) = << >>)) =>
        ila_ret = Some(TRUE)

\* the part that holds: a library without a rule list is allowed on every OS
C22_AbsentRulesAllowed ==
    (op = "rules" /\ IsSome(ila_ret) /\ IsNone(ila_lib.rules)) => ila_ret = Some(TRUE)

\* a present but empty rule list has been evaluated to "not allowed"
C22_EmptyListDenied ==
    /\ op = "rules"
    /\ ila_lib.rules = Some(<< >>)
    /\ ila_ret = Some(FALSE)

---------------------------------------------------------------------------
(* Claims about the classpath builder *)

\* the library behind a <<visit, index>> pair
CpLibAt(c) == Unwrap(VersionFile(cp_visited[c[1]]).json).libraries[c[2]]

\* every library met so far, as <<visit, index>>
CpMet ==
    {c \in (1..Len(cp_visited)) \X (1..MaxLibs) :
        /\ c[2] <= Len(Unwrap(VersionFile(cp_visited[c[1]]).json).libraries)
        /\ (c[1] = Len(cp_visited) /\ cp_pc = "for") => c[2] < cp_i}

\* traversal order: child before parent, source order inside a descriptor
CpBefore(c, d) == c[1] < d[1] \/ (c[1] = d[1] /\ c[2] < d[2])

\* the (group, artifact) coordinate of a library name
Coordinate(lib) ==
    LET parts == Split(lib.name, ":") IN <<parts[1], parts[2]>>

\* a library that may be put on the classpath: allowed on linux, and either
\* explicit artifact info or its derived file on disk
CpUsable(lib) ==
    /\ is_library_allowed(lib, "linux")
    /\ \/ (IsSome(lib.downloads) /\ IsSome(Unwrap(lib.downloads).artifact))
       \/ IsSome(DerivedLibPath(lib))

\* the entries of a returned classpath string
Entries(cp) == IF cp = << >> THEN << >> ELSE Split(cp, ":")

CpSrcSet == {cp_src[a] : a \in 1..Len(cp_src)}

\* C1: the classpath holds at most one entry per (group, artifact)
\* coordinate, and the entry kept for a coordinate is the first usable
\* library of that coordinate in traversal order (child before parent,
\* source order inside a descriptor).
C1_OneEntryPerCoordinate ==
    op = "classpath" =>
        /\ \A a, b \in 1..Len(cp_src) :
              a # b => Coordinate(CpLibAt(cp_src[a])) # Coordinate(CpLibAt(cp_src[b]))
        /\ \A a \in 1..Len(cp_src) : \A c \in CpMet :
              (CpBefore(c, cp_src[a]) /\ CpUsable(CpLibAt(c)))
                 => Coordinate(CpLibAt(c)) # Coordinate(CpLibAt(cp_src[a]))
        /\ Len(cp_paths) >= Len(cp_src)
        /\ cp_pc = "ok" =>
              LET entries == Entries(Unwrap(cp_ret)) IN
              /\ Len(entries) \in {Len(cp_src), Len(cp_src) + 1}
              /\ \A a \in 1..Len(cp_src) :
                    entries[a] = Unwrap(LibPathBuf(CpLibAt(cp_src[a])))

\* a classpath was returned for a chain in which an ancestor repeats a
\* usable coordinate of its child, and the ancestor's library was dropped
C1_Witness ==
    /\ op = "classpath"
    /\ cp_pc = "ok"
    /\ \E c \in CpMet : \E a \in 1..Len(cp_src) :
          /\ c[1] > cp_src[a][1]
          /\ CpUsable(CpLibAt(c))
          /\ Coordinate(CpLibAt(c)) = Coordinate(CpLibAt(cp_src[a]))
          /\ c \notin CpSrcSet

\* "libs/a1.jar" and "vers/1.19.4/1.19.4.jar", written out
PathOfLibA1 == <<"l", "i", "b", "s", "/", "a", "1", ".", "j", "a", "r">>

JarOf_1_19_4 == <<"v", "e", "r", "s", "/", "1", ".", "1", "9", ".", "4", "/",
                  "1", ".", "1", "9", ".", "4", ".", "j", "a", "r">>

\* version 1.19.4 with no parent, one allowed library with explicit artifact
\* info and one library denied on this OS
ScenarioDisk(libs) ==
    OneFile(V_1_19_4, PresentFile([inherits_from |-> None, java_version |-> None,
                                   libraries |-> libs]))

\* C2: the libraries on the classpath are exactly the usable libraries that
\* are first of their coordinate, in traversal order; no library denied on
\* this OS is among them; the JAR of the base version (the descriptor
\* without inheritsFrom that ended the walk) is the last entry; and for
\* 1.19.4 with no parent, one allowed and one denied library the result is
\* exactly [allowed library, base JAR].
C2_OrderDeniedOmittedJarLast ==
    op = "classpath" =>
        /\ \A a, b \in 1..Len(cp_src) : a < b => CpBefore(cp_src[a], cp_src[b])
        /\ \A a \in 1..Len(cp_src) : is_library_allowed(CpLibAt(cp_src[a]), "linux")
        /\ \A c \in CpMet :
              (/\ CpUsable(CpLibAt(c))
               /\ \A d \in CpMet : (CpBefore(d, c) /\ CpUsable(CpLibAt(d)))
                      => Coordinate(CpLibAt(d)) # Coordinate(CpLibAt(c)))
                 => c \in CpSrcSet
        /\ cp_pc = "ok" =>
              LET entries == Entries(Unwrap(cp_ret))
                  last == cp_visited[Len(cp_visited)]
                  base == IsNone(Unwrap(VersionFile(last).json).inherits_from)
              IN /\ Len(entries) = Len(cp_src) + (IF base THEN 1 ELSE 0)
                 /\ base => entries[Len(entries)] =
                               versions_dir \o <<"/">> \o last \o <<"/">> \o last \o JarExt
                 /\ \A perm \in {<<LibA1, LibDenied>>, <<LibDenied, LibA1>>} :
                       (disk = ScenarioDisk(perm) /\ cp_start = V_1_19_4)
                          => entries = <<PathOfLibA1, JarOf_1_19_4>>

\* the classpath of the 1.19.4 scenario has been returned
C2_Witness ==
    /\ op = "classpath"
    /\ cp_pc = "ok"
    /\ cp_start = V_1_19_4
    /\ disk = ScenarioDisk(<<LibA1, LibDenied>>)
    /\ Entries(Unwrap(cp_ret)) = <<PathOfLibA1, JarOf_1_19_4>>

---------------------------------------------------------------------------
(* Claims about the inheritance walk *)

NoRepeat(seq) == \A i, j \in 1..Len(seq) : i # j => seq[i] # seq[j]

\* C4: no walk of an inheritance chain loads a version identifier a second
\* time: build_classpath and get_required_java_version stop with a fatal
\* error when inheritsFrom leads back to an identifier already visited.
C4_RevisitIsFatal ==
    /\ op = "classpath" => NoRepeat(cp_visited)
    /\ op = "java" => NoRepeat(jv_visited)

\* the descriptors of the chain walked by get_required_java_version that
\* declare javaVersion.majorVersion, by position
JvDeclaring ==
    {j \in 1..Len(jv_visited) :
        /\ VersionFile(jv_visited[j]).exists
        /\ IsSome(VersionFile(jv_visited[j]).json)
        /\ IsSome(Unwrap(VersionFile(jv_visited[j]).json).java_version)}

\* the walk follows inheritsFrom from the version asked for
JvIsChain ==
    \A j \in 1..(Len(jv_visited) - 1) :
        /\ IsSome(VersionFile(jv_visited[j]).json)
        /\ Unwrap(VersionFile(jv_visited[j]).json).inherits_from
              = Some(jv_visited[j + 1])

\* C5: get_required_java_version returns the majorVersion declared by the
\* nearest descriptor of the chain; the heuristic value is returned only
\* when no descriptor reached along the chain declares the field.
C5_DeclaredVersionWins ==
    (op = "java" /\ jv_pc = "ok") =>
        /\ JvIsChain
        /\ IF JvDeclaring # {}
           THEN LET near == CHOOSE j \in JvDeclaring : \A k \in JvDeclaring : j <= k
                IN jv_ret = Some(Unwrap(Unwrap(VersionFile(jv_visited[near]).json)
                                          .java_version).major_version)
           ELSE jv_ret = Some(JavaHeuristic(jv_visited[Len(jv_visited)]))

\* a child without the field returned the value its parent declares, which
\* differs from what the heuristic gives for either identifier
C5_Witness ==
    /\ op = "java"
    /\ jv_pc = "ok"
    /\ Len(jv_visited) = 2
    /\ JvDeclaring = {2}
    /\ jv_ret # Some(JavaHeuristic(jv_visited[1]))
    /\ jv_ret # Some(JavaHeuristic(jv_visited[2]))

\* was the heuristic applied to the identifier asked for
JvHeuristicOnStart == Len(jv_visited) = 1 /\ JvDeclaring = {}

\* the major version the specification gives for 1.<minor>[.<patch>]
JavaTable(minor, patch) ==
    IF minor >= 21 THEN 21
    ELSE IF minor = 20 /\ IsSome(patch) /\ Unwrap(patch) >= 5 THEN 21
    ELSE IF minor >= 18 THEN 17
    ELSE IF minor = 17 THEN 16
    ELSE 8

\* C6: when no descriptor declares a Java version, 1.<minor>[.<patch>] maps
\* to 21 if minor >= 21, 21 if minor = 20 and patch >= 5, 17 for every
\* other minor >= 18, 16 if minor = 17, and 8 otherwise.
C6_HeuristicTable ==
    (op = "java" /\ jv_pc = "ok" /\ JvHeuristicOnStart) =>
        \A m \in Minors, p \in Patches :
            jv_visited[1] = VersionStr(m, p) => jv_ret = Some(JavaTable(m, p))

\* the part of an identifier after its last '-'
AfterLastDash(id) == LET parts == Split(id, "-") IN parts[Len(parts)]

\* C7: for fabric-loader-<loader version>-<game version> the heuristic is
\* applied to the part after the last '-', so the result is the one of the
\* bare game version.
C7_FabricIdStripped ==
    (op = "java" /\ jv_pc = "ok" /\ JvHeuristicOnStart /\ jv_visited[1] = V_fabric) =>
        /\ AfterLastDash(jv_visited[1]) = V_1_19_4
        /\ jv_ret = Some(JavaHeuristic(AfterLastDash(jv_visited[1])))


---------------------------------------------------------------------------
(* C8 *)

FjReturned == fj_pc \in {"ok", "err"}

\* C8: find_java(major) returns nothing but runtimes/java-<major>/bin/java,
\* never a Java found on PATH, through JAVA_HOME or under a system
\* directory, and it fails when the isolated runtime is absent.
C8_OnlyIsolatedRuntime ==
    /\ fj_pc = "ok" => (fj_ret = Some(RuntimeJava(major)) /\ Installed)
    /\ (FjReturned /\ ~Installed) => (fj_pc = "err" /\ fj_ret = None)

---------------------------------------------------------------------------
(* C9 *)

InsFailedBeforeRename == ins_pc \in {"err", "interrupted"} /\ ~ins_renamed

\* C9: when download_and_install_java has failed or was interrupted before
\* the rename, runtimes/java-<major>/bin/java does not exist and find_java
\* does not come back with the runtime; and a runtime that passes the
\* installed check is never a partly extracted one.
C9_NoHalfInstalledRuntime ==
    /\ InsFailedBeforeRename =>
          /\ ~Installed
          /\ JavaManager_find_java(major) = None
          /\ RuntimeJava(major) \notin Launcher_find_java(major)
    /\ (op = "install" /\ Installed) => Unwrap(rt) = Jdk

\* the call stopped while bin/java was already unpacked and other files not
C9_Witness ==
    /\ InsFailedBeforeRename
    /\ "bin/java" \in TmpFiles /\ TmpFiles # Jdk
    /\ ~Installed

---------------------------------------------------------------------------
(* C10 *)

\* the step handles the message at the head of the channel
Handled(type) ==
    /\ Handling(type)
    /\ ui_queue' # ui_queue /\ Len(ui_queue') <= Len(ui_queue)

PrepareJavaStarts == prepare_tasks' > prepare_tasks

DownloadStarts == download_tasks' > download_tasks

\* a launch task comes back while the runtime is absent
LaunchFindsJavaMissing == launch_tasks' < launch_tasks /\ ~Installed

Busy(state) == state \in {"Launching", "Downloading", "GameRunning"}

\* C24: at most one launch attempt or game process is active at a time:
\* while the state is Launching, Downloading or GameRunning a LaunchProfile
\* message starts no second launch task, and the state leaves
\* Launching/GameRunning only through GameStarted, LaunchCompleted, Error or
\* a cancelled Java dialog.
C24_OneLaunchAtATime == launch_tasks + games <= 1

\* what holds: as long as no save thread has reported an error, launch tasks
\* and games never overlap
C24_AloneWithoutForeignError == ~pf.failed => launch_tasks + games <= 1

\* a second launch task was started from the home page while the game of the
\* first launch is running
C24_SecondLaunchBesideGame ==
    /\ games = 1 /\ launch_tasks = 1
    /\ ui_state = "Launching"
    /\ pf.failed

\* C25: after any sequence of profile mutations (SaveProfile, DeleteProfile,
\* SessionEnded), once every save thread they spawned has finished,
\* profiles.json holds the latest in-memory profile map: the snapshot of an
\* earlier, slower save thread never replaces that of a later mutation.
C25_LatestSnapshotWins ==
    (pf.saves > 0 /\ pf.threads = {} /\ ~pf.failed) => pf.json = pf.profiles

\* both threads of two saves have written, the earlier one last
C25_StaleSnapshotLeft ==
    /\ pf.saves = 2 /\ pf.threads = {} /\ ~pf.failed
    /\ pf.json # pf.profiles


IconMsgsPending ==
    Len(SelectSeq(ui_queue, LAMBDA m : m.type = "ModIconDownloaded"))

\* C26: in every reachable state of the message loop at most one mod-icon
\* download worker is in flight: ProcessIconQueue starts a worker only when
\* is_downloading_icon is false and sets the flag, and the flag is cleared
\* only when that worker's ModIconDownloaded message is handled, so the flag
\* is set exactly while a worker runs or its message waits.
C26_OneIconWorker ==
    op = "icons" =>
        /\ Len(ic.workers) + IconMsgsPending <= 1
        /\ ic.flag <=> (Len(ic.workers) + IconMsgsPending = 1)

\* a worker runs while a second request and a second ProcessIconQueue wait
C26_Witness ==
    /\ op = "icons"
    /\ Len(ic.workers) = 1 /\ ic.flag
    /\ ic.queue # << >>
    /\ \E i \in 1..Len(ui_queue) : ui_queue[i].type = "ProcessIconQueue"

IsPrefix(a, b) == Len(a) <= Len(b) /\ SubSeq(b, 1, Len(a)) = a

C28_RetryDiscipline ==
    op = "modrinth" =>
        /\ Len(mr.requests) <= retries + 1
        /\ mr.slept = SubSeq(<<1, 2, 4, 8>>, 1, Len(mr.slept))
        /\ \A i \in 1..Len(mr.requests) :
              LET status == mr.requests[i].status
                  retried == status = 0 \/ (status \in 500..599 /\ status # 503)
              IN  IF retried
                  THEN /\ Len(mr.slept) >= i
                       /\ mr.pc = "done" /\ i = Len(mr.requests)
                            => i = retries + 1 /\ ~mr.ret[1].ok
                  ELSE /\ i = Len(mr.requests)
                       /\ mr.pc = "done"
                       /\ Len(mr.slept) = i - 1
                       /\ status \in 200..299 /\ mr.requests[i].body
                            => mr.ret = MrOk(mr.fn)
                       /\ status \in 400..499 \/ status = 503
                            => mr.ret # None /\ ~mr.ret[1].ok

\* a call that was retried after a 502 and a transport error and then
\* stopped by a 503
C28_Witness ==
    /\ op = "modrinth" /\ mr.pc = "done"
    /\ Len(mr.requests) = 3
    /\ mr.requests[1].status = 502 /\ mr.requests[2].status = 0
    /\ mr.requests[3].status = 503
    /\ mr.slept = <<1, 2>>


\* the entries of the descriptor before the i-th with the same group:artifact
EarlierSameKey(i) ==
    \E j \in 1..(i - 1) : MavenKey(DlLibraries[j]) = MavenKey(DlLibraries[i])

\* the i-th entry, written under its derived path, is on the classpath
OnClasspath(i) ==
    \E k \in 1..Len(cp_paths) :
       cp_paths[k] = PathJoin(libraries_dir, Unwrap(DlRelPath(DlLibraries[i])))

\* C30: every rule-allowed library without explicit artifact info that
\* check_and_download_libraries has stored under its derived Maven path is
\* put on the classpath by build_classpath, unless an earlier entry has the
\* same group:artifact; both derive the same relative path
\* group/artifact/version/artifact-version[-classifier].jar, also for
\* coordinates with a classifier.
C30_StoredLibraryOnClasspath ==
    (op = "libraries" /\ cp_pc = "ok") =>
        \A i \in dl.wrote :
           IsNone(DlLibraries[i].downloads) => OnClasspath(i) \/ EarlierSameKey(i)

\* the same for the coordinates of three parts, group:artifact:version
C30_PlainCoordinateOnClasspath ==
    (op = "libraries" /\ cp_pc = "ok") =>
        \A i \in dl.wrote :
           (/\ IsNone(DlLibraries[i].downloads)
            /\ Len(Split(DlLibraries[i].name, ":")) = 3)
               => OnClasspath(i) \/ EarlierSameKey(i)

\* a library with a classifier was written and the classpath lacks it
C30_ClassifiedLeftOut ==
    /\ op = "libraries" /\ cp_pc = "ok"
    /\ \E i \in dl.wrote :
          /\ DlLibraries[i] = DlLibClassified
          /\ ~OnClasspath(i) /\ ~EarlierSameKey(i)

\* a plain library was written and is on the classpath
C30_PlainWitness ==
    /\ op = "libraries" /\ cp_pc = "ok"
    /\ \E i \in dl.wrote : DlLibraries[i] = DlLibDotted /\ OnClasspath(i)

---------------------------------------------------------------------------
(* Claims about launch_minecraft *)

RECURSIVE NearestValue(_, _, _)
\* the value get(json) of the nearest descriptor of the chain of `version`
\* that defines one, looking at most `fuel` descriptors up
NearestValue(version, get(_), fuel) ==
    IF fuel = 0 \/ ~VersionFile(version).exists \/ IsNone(VersionFile(version).json)
    THEN None
    ELSE LET json == Unwrap(VersionFile(version).json) IN
         IF IsSome(get(json)) THEN get(json)
         ELSE IF IsSome(json.inherits_from)
         THEN NearestValue(Unwrap(json.inherits_from), get, fuel - 1)
         ELSE None

MainClassIn(json) == json.main_class

NearestMainClass == NearestValue(lm.version, MainClassIn, Len(LaunchChainIds))

NearestAssetIndex == NearestValue(lm.version, AssetIndexId, Len(LaunchChainIds))

\* C11: a launch that succeeds uses the main class and the asset index of the
\* nearest descriptor of the inheritance chain that defines them, at any depth
C11_NearestDefinerAtAnyDepth ==
    lm.pc = "ok" =>
        /\ IsSome(NearestMainClass) => lm.main_class = NearestMainClass
        /\ lm.asset_index_id = NearestAssetIndex

\* the part of C11 that the code keeps: what the started descriptor defines
\* itself is never replaced by an ancestor's value
C11_ChildValueKept ==
    lm.pc = "ok" =>
        LET json == Unwrap(lm.version_json) IN
        /\ IsSome(json.main_class) => lm.main_class = json.main_class
        /\ IsSome(json.asset_index) => lm.asset_index_id = AssetIndexId(json)
\* C12: the command of a successful launch_minecraft carries -Xmx<ram>M,
\* -Xms<ram/2>M, -Djava.library.path=<natives dir>, -cp <classpath>, the main
\* class, --username, --version, --gameDir, --assetsDir with their values,
\* then --assetIndex <id> exactly when an asset index was resolved, then
\* --accessToken 0 --userProperties {}, in this order
C12_ArgumentOrder ==
    lm.pc = "ok" =>
        LET a == lm.args
            k == IF IsSome(lm.asset_index_id) THEN 2 ELSE 0
        IN
        /\ Len(a) = 18 + k
        /\ a[1] = <<"-", "X", "m", "x">> \o u32_to_string(lm.ram_mb) \o <<"M">>
        /\ a[2] = <<"-", "X", "m", "s">> \o u32_to_string(lm.ram_mb \div 2) \o <<"M">>
        /\ a[3] = <<"-", "D", "j", "a", "v", "a", ".", "l", "i", "b", "r", "a", "r", "y", ".", "p", "a", "t", "h", "=">> \o lm.natives_dir
        /\ a[4] = <<"-", "c", "p">> /\ a[5] = Unwrap(cp_ret)
        /\ a[6] = Unwrap(lm.main_class)
        /\ a[7] = <<"-", "-", "u", "s", "e", "r", "n", "a", "m", "e">> /\ a[8] = lm.username
        /\ a[9] = <<"-", "-", "v", "e", "r", "s", "i", "o", "n">> /\ a[10] = lm.version
        /\ a[11] = <<"-", "-", "g", "a", "m", "e", "D", "i", "r">> /\ a[12] = lm.game_dir
        /\ a[13] = <<"-", "-", "a", "s", "s", "e", "t", "s", "D", "i", "r">> /\ a[14] = assets_dir
        /\ IsSome(lm.asset_index_id) =>
              (a[15] = <<"-", "-", "a", "s", "s", "e", "t", "I", "n", "d", "e", "x">> /\ a[16] = Unwrap(lm.asset_index_id))
        /\ a[15 + k] = <<"-", "-", "a", "c", "c", "e", "s", "s", "T", "o", "k", "e", "n">> /\ a[16 + k] = <<"0">>
        /\ a[17 + k] = <<"-", "-", "u", "s", "e", "r", "P", "r", "o", "p", "e", "r", "t", "i", "e", "s">> /\ a[18 + k] = <<"{", "}">>
        /\ \A i \in 1..Len(a) : a[i] = <<"-", "-", "a", "s", "s", "e", "t", "I", "n", "d", "e", "x">> => (k = 2 /\ i = 15)

\* a launch with an odd heap size, a library on the classpath and an asset
\* index taken from the parent descriptor has returned its command
C12_Witness ==
    /\ lm.pc = "ok" /\ lm.ram_mb = 1025 /\ Len(cp_paths) = 2
    /\ IsSome(lm.asset_index_id)
    /\ IsNone(Unwrap(lm.version_json).asset_index)
---------------------------------------------------------------------------
(* Claims about missing descriptors *)

\* C13: build_classpath fails when the JSON of the starting version is
\* absent; an absent JSON of an ancestor ends the walk there, and the call
\* still returns the classpath gathered so far
C13_MissingStartFatalMissingAncestorTolerated ==
    cp_pc # "idle" =>
        /\ ~VersionFile(cp_start).exists =>
              /\ cp_pc \in {"while", "err"}
              /\ cp_visited = << >> /\ cp_ret = None
              /\ cp_pc = "err" => cp_err = "Version JSON not found"
        /\ (cp_pc = "err" /\ VersionFile(cp_start).exists) =>
              /\ IsSome(cp_current)
              /\ VersionFile(Unwrap(cp_current)) = CorruptFile
        /\ (cp_pc \in {"finish", "ok"} /\ IsSome(cp_current)) =>
              /\ Unwrap(cp_current) # cp_start
              /\ ~VersionFile(Unwrap(cp_current)).exists
              /\ Unwrap(Unwrap(cp_json).inherits_from) = Unwrap(cp_current)
              /\ cp_jar = None
              /\ cp_pc = "ok" => cp_ret = Some(JoinWith(cp_paths, ":"))

\* a walk over two descriptors has ended at an absent ancestor and returned
\* the libraries gathered from them
C13_Witness ==
    /\ cp_pc = "ok" /\ IsSome(cp_current)
    /\ ~VersionFile(Unwrap(cp_current)).exists
    /\ Len(cp_visited) = 2 /\ Len(cp_paths) >= 1 /\ IsSome(cp_ret)
---------------------------------------------------------------------------
(* Claims about asset provisioning *)

\* the requests of the running pass that ask for the object of this hash
ObjectRequests(hash) ==
    {k \in 1..Len(ap.requests) : ap.requests[k] = ObjectRequest(hash)}

\* C14: in one pass an object is requested at most once per content hash,
\* however many entries of the index carry the hash, and the file it is
\* written to, objects/<first two characters>/<hash>, is a function of the
\* hash alone
C14_OncePerHash ==
    /\ \A hash \in Hashes : Cardinality(ObjectRequests(hash)) <= 1
    /\ \A k \in 1..Len(ap.requests) :
          ap.requests[k].kind = "object" =>
             \E hash \in Hashes :
                /\ ap.requests[k] = ObjectRequest(hash)
                /\ hash \in {ap.objects[j] : j \in 1..Len(ap.objects)}
    /\ \A f \in assets_files :
          \/ \E id \in {<<"3">>} : f = IndexPath(id)
          \/ \E hash \in Hashes :
                f = <<"a", "s", "s", "e", "t", "s">> \o <<"/">> \o <<"o", "b", "j", "e", "c", "t", "s">> \o <<"/">>
                    \o <<hash[1], hash[2]>> \o <<"/">> \o hash

\* a pass over an index with three entries of one hash, none of them cached,
\* has ended with the one object on disk
C14_Witness ==
    /\ ap.pc = "ok" /\ ap.run = 1 /\ Len(ap.objects) = 3
    /\ \A k \in 1..3 : ap.objects[k] = ap.objects[1]
    /\ Len(ap.requests) = 2
    /\ ObjectPath(ap.objects[1]) \in assets_files

\* C15: a run that starts with the index file and every object of the index
\* on disk sends no request
C15_SecondRunOffline ==
    (ap.run = 2 /\ ap.full_at_start) => ap.requests = << >>

\* C16: the failure of one object's download leaves the batch running: the
\* step ends only after every entry of the index was attempted, and ends Ok
C16_FailureDoesNotAbort ==
    (ap.pc \in {"ok", "err"} /\ ap.failed_at > 0) =>
        /\ ap.pc = "ok"
        /\ ap.i > Len(ap.objects)
---------------------------------------------------------------------------
(* Claims about install_fabric *)

\* C20: when the installer subprocess ends with a status other than success,
\* install_fabric returns an error that carries the captured standard error,
\* without having scanned the versions directory and without a version id
C20_InstallerFailureSurfaced ==
    (IsSome(fab.exit) /\ Unwrap(fab.exit) # "0") =>
        /\ fab.pc \in {"status", "err"}
        /\ ~fab.scanned
        /\ fab.ret = None
        /\ fab.pc = "err" =>
              /\ Len(fab.err) >= Len(fab.stderr)
              /\ SubSeq(fab.err, Len(fab.err) - Len(fab.stderr) + 1, Len(fab.err))
                    = from_utf8_lossy(fab.stderr)

\* the installer has left a profile directory behind and exited with status 1
\* and a message; install_fabric has returned its error
C20_Witness ==
    /\ fab.pc = "err" /\ fab.exit = Some("1") /\ fab.stderr = <<"b", "o", "o", "m">>
    /\ FabricMatches(fab.mc_version) # {}

ModTime(e) == IF IsSome(e.modified) THEN Unwrap(e.modified) ELSE 0

\* name is the most recently modified of the entries of versions_dir that
\* match version
NewestMatch(name, version) ==
    \E e \in UiFabricMatches(version) :
       /\ e.name = name
       /\ \A f \in UiFabricMatches(version) :
             f.is_dir => ModTime(f) <= ModTime(e)

\* C21: the Fabric identifier chosen for a vanilla version, by install_fabric
\* or by the lookup of the launch thread, is the most recently modified of
\* the entries of versions_dir whose name contains fabric-loader and ends
\* with -<version>: an older leftover is never preferred over a newer match.
C21_NewestMatchChosen ==
    /\ fab.pc = "ok" => NewestMatch(Unwrap(fab.ret), fab.mc_version)
    /\ fab.ui = "launch" => NewestMatch(Unwrap(fab.version_to_launch), fab.mc_version)

\* install_fabric alone returns the newest matching directory
C21_InstallFabricReturnsNewest ==
    fab.pc = "ok" =>
        \E e \in FabricMatches(fab.mc_version) :
           /\ e.name = Unwrap(fab.ret)
           /\ \A f \in FabricMatches(fab.mc_version) : ModTime(f) <= ModTime(e)

\* the lookup of the launch thread has taken an older directory while a
\* newer matching directory exists
C21_StaleChosen ==
    /\ fab.ui = "launch"
    /\ fab.pc = "idle"
    /\ \E e, f \in UiFabricMatches(fab.mc_version) :
          /\ e.name = Unwrap(fab.version_to_launch)
          /\ e.is_dir /\ f.is_dir
          /\ ModTime(e) < ModTime(f)

GateIds == UNION {{Dotted(t), FabricIdOf(t)} : t \in GateVersions}

\* is the (major, minor) an identifier was written from at least (1, 8)
AtLeastOneEight ==
    [v \in GateIds |->
        LET t == CHOOSE u \in GateVersions : v \in {Dotted(u), FabricIdOf(u)}
        IN t.major > 1 \/ (t.major = 1 /\ t.minor >= 8)]

GateRejected == lm.pc = "err" /\ lm.err = "Versions below 1.8 are not supported"

\* C23: is_at_least_1_8 accepts an identifier iff its (major, minor) is at
\* least (1, 8); for an identifier containing "fabric" the numbers are those
\* of the part after the last '-'; fabric-loader-0.18.4-1.19.4 and 1.20.1
\* pass the gate of launch_minecraft and 1.7.10 does not.
C23_GateIsOneEight ==
    (op = "launch" /\ lm.pc # "call") =>
        /\ lm.version \in GateIds => (GateRejected <=> ~AtLeastOneEight[lm.version])
        /\ lm.version = FabricPrefix \o <<"0", ".", "1", "8", ".", "4", "-", "1", ".", "1", "9", ".", "4">>
              => ~GateRejected
        /\ lm.version = <<"1", ".", "2", "0", ".", "1">> => ~GateRejected
        /\ lm.version = <<"1", ".", "7", ".", "1", "0">> => GateRejected

\* fabric-loader-0.18.4-1.19.4 has passed the gate and failed later, on its
\* missing descriptor
C23_Witness ==
    /\ op = "launch"
    /\ lm.version = FabricPrefix \o <<"0", ".", "1", "8", ".", "4", "-", "1", ".", "1", "9", ".", "4">>
    /\ lm.pc = "err"
    /\ lm.err = "io error"
---------------------------------------------------------------------------
(* Claims about native extraction *)

\* C17: check_and_extract_natives and the repair of launch_minecraft, called
\* with a natives directory that exists and is not empty, do nothing: no
\* archive is requested, no member is written, the directory stays as it was
C17_PopulatedDirectoryIsLeftAlone ==
    (/\ nat.impl \in {"library_manager", "launcher"}
     /\ IsSome(nat.dir_at_call)
     /\ Unwrap(nat.dir_at_call).files \cup Unwrap(nat.dir_at_call).dirs # {}) =>
        /\ nat.pc \in {"check", "ok"}
        /\ nat.requests = << >>
        /\ nat.written = << >>
        /\ natives_dir = nat.dir_at_call
        /\ zips = << >> \/ \A z \in DOMAIN zips : zips[z] = "archive"

\* check_and_extract_natives has returned from a populated directory although
\* the descriptor names a native library whose archive is not cached
C17_Witness ==
    /\ nat.impl = "library_manager" /\ nat.pc = "ok"
    /\ natives_dir = PopulatedDir
    /\ \E k \in 1..Len(nat.libraries) :
          /\ nat.libraries[k].native_by # "none"
          /\ ZipName(nat.libraries[k]) \notin DOMAIN zips

\* C29: the cached native archive versions/<id>/<library>.zip is written
\* only with the body of a successful (2xx) response, so that a failed
\* download is attempted again on the next run instead of leaving an
\* unusable archive whose presence suppresses every later download.
C29_OnlySuccessfulBodiesCached ==
    \A z \in DOMAIN zips : zips[z] # "error page"

\* the repair has returned Ok(()) with the error page of a failed download
\* stored as the library's archive and nothing extracted from it
C29_ErrorPageCached ==
    /\ nat.impl \in {"library_manager", "launcher"} /\ nat.pc = "ok"
    /\ ~NativesOk(natives_dir)
    /\ \E k \in 1..Len(nat.libraries) :
          /\ ZipName(nat.libraries[k]) \in DOMAIN zips
          /\ zips[ZipName(nat.libraries[k])] = "error page"
          /\ nat.requests = <<ZipName(nat.libraries[k])>>

\* the files and the directories found in the natives directory
NativesFiles == IF IsSome(natives_dir) THEN Unwrap(natives_dir).files ELSE {}

NativesDirs == IF IsSome(natives_dir) THEN Unwrap(natives_dir).dirs ELSE {}

\* the part of a member's path after its last '/'
LastPiece(name) ==
    LET slashes == {k \in 1..Len(name) : name[k] = "/"} IN
    IF slashes = {} THEN name
    ELSE SubSeq(name, (CHOOSE k \in slashes : \A j \in slashes : j <= k) + 1,
                Len(name))

WrittenMembers(i) == {w \in {nat.written[k] : k \in 1..Len(nat.written)} : w.lib = i}

\* C18: an extraction that meets no I/O error writes a member exactly when it
\* is not a directory entry and starts with no exclude prefix, and writes it
\* into the natives directory itself under its file name; no directory is made
C18_ExcludeAndFlatten ==
    \A i \in nat.clean :
        LET lib == nat.libraries[i] IN
        /\ \A k \in 1..Len(lib.archive) :
              (\E w \in WrittenMembers(i) : w.member = k) <=>
                 /\ lib.archive[k][Len(lib.archive[k])] # "/"
                 /\ \A j \in 1..Len(lib.exclude) :
                       ~StartsWith(lib.archive[k], lib.exclude[j])
        /\ \A w \in WrittenMembers(i) :
              /\ w.outpath = LastPiece(lib.archive[w.member])
              /\ w.outpath \in NativesFiles
        /\ NativesDirs = {}

\* C18 for archives whose members all end in a file name
C18_ForProperNames ==
    \A i \in nat.clean :
        LET lib == nat.libraries[i] IN
        (\A k \in 1..Len(lib.archive) : IsSome(file_name(lib.archive[k]))) =>
        /\ \A k \in 1..Len(lib.archive) :
              (\E w \in WrittenMembers(i) : w.member = k) <=>
                 /\ lib.archive[k][Len(lib.archive[k])] # "/"
                 /\ \A j \in 1..Len(lib.exclude) :
                       ~StartsWith(lib.archive[k], lib.exclude[j])
        /\ \A w \in WrittenMembers(i) :
              /\ w.outpath = LastPiece(lib.archive[w.member])
              /\ w.outpath \in NativesFiles
        /\ NativesDirs = {}

\* C19: when the archive of a library cannot be downloaded or extracted, the
\* run still goes through every library entry and returns Ok
C19_FailedLibraryDoesNotAbort ==
    (nat.pc \in {"ok", "err"} /\ nat.failed # {}) =>
        /\ nat.pc = "ok"
        /\ nat.entered = 1..Len(nat.libraries)

\* C19 for check_and_extract_natives and the repair of launch_minecraft
C19_ForTheTolerantLoops ==
    (nat.impl # "main" /\ nat.pc \in {"ok", "err"} /\ nat.failed # {}) =>
        /\ nat.pc = "ok"
        /\ nat.entered = 1..Len(nat.libraries)
====
